---- MODULE Spec2Model ----
(***************************************************************************)
(* A model of the course generation backend of visionflow:                 *)
(*   src/api/generator.py  clean_json_string, generate_syllabus,           *)
(*                         search_youtube_video, generate_course           *)
(*   src/api/index.py      the models, the /api/generate handler, and the  *)
(*                         routes of the syllabus, the lessons, the        *)
(*                         progress and the seeding                        *)
(*                                                                         *)
(* A text is a sequence of strings.  Where the code looks at single        *)
(* characters (the sanitizer, the slug, a length limit) every element is   *)
(* one character; elsewhere an element may be a longer piece.              *)
(***************************************************************************)
EXTENDS Integers, Sequences, FiniteSets, TLC

VARIABLES
    arg,        \* harness of the pure functions: the input text
    out1,       \* ... the function applied once
    out2,       \* ... the function applied to out1
    fstage,     \* ... "off" | "input" | "once" | "twice"
    committed,  \* the committed rows of the store: courses, modules, lessons
    nextModuleId,   \* the next Module.id the store hands out
    nextLessonId,   \* the next Lesson.id the store hands out
    pc,         \* per request: where the handler is
    data,       \* per request: request.json, the body of the request
    calls,      \* per request: the calls of the text-generation service
    topic,      \* per request: the trimmed topic
    env,        \* per request: the credential and what the text service did
    syllabus,   \* per request: the validated syllabus
    course_id,  \* per request: the identifier of the Course
    module_idx, \* per request: 0-based index of the module being built
    lesson_idx, \* per request: 0-based index of the lesson being built
    module_id,  \* per request: module.id of the module being built
    session,    \* per request: the rows added to db.session, not committed
    error,      \* per request: the exception that was raised
    response,   \* per request: the HTTP response
    searches,   \* per request: the calls of search_youtube_video
    log,        \* per request: the log records of level WARNING and above
    before,     \* per request: the committed rows when the request arrived
    users,          \* the committed rows of the table User
    user_progress,  \* the committed rows of the table UserProgress
    upd,        \* per progress update: where it is, who sent what, what it found
    latest,     \* per user and topic: is_completed of the last committed update
    read,       \* the answer of the last GET of the progress routes, and the
                \* value of latest when it was given
    seed        \* per seed call: where it is, and its answer

fvars == <<arg, out1, out2, fstage>>

dbvars == <<committed, nextModuleId, nextLessonId>>

rvars == <<pc, data, calls, topic, env, syllabus, course_id, module_idx, lesson_idx, module_id,
           session, error, response, searches, log, before>>

avars == <<users, user_progress, upd, latest, read, seed>>

vars == <<fvars, dbvars, rvars, avars>>

----------------------------------------------------------------------------
(* Texts *)

Min(a, b) == IF a <= b THEN a ELSE b

\* Python's s[:n]
Take(s, n) == SubSeq(s, 1, Min(Len(s), n))

\* Python's s[n:]
Drop(s, n) == SubSeq(s, n + 1, Len(s))

RECURSIVE Concat(_)
\* the concatenation of a sequence of texts
Concat(ss) == IF ss = <<>> THEN <<>> ELSE Head(ss) \o Concat(Tail(ss))

\* n copies of the piece c
Rep(c, n) == [i \in 1..n |-> c]

UpperChars ==
    <<"A","B","C","D","E","F","G","H","I","J","K","L","M",
      "N","O","P","Q","R","S","T","U","V","W","X","Y","Z">>

LowerChars ==
    <<"a","b","c","d","e","f","g","h","i","j","k","l","m",
      "n","o","p","q","r","s","t","u","v","w","x","y","z">>

DigitChars == <<"0","1","2","3","4","5","6","7","8","9">>

\* str.lower() on one character
LowerChar(c) ==
    IF \E i \in 1..26 : UpperChars[i] = c
    THEN LowerChars[CHOOSE i \in 1..26 : UpperChars[i] = c]
    ELSE c

\* str.lower()
Lower(s) == [i \in 1..Len(s) |-> LowerChar(s[i])]

\* the regular expression class \s, and what str.strip() removes
IsSpace(c) == c \in {" ", "\n", "\t"}

RECURSIVE LStrip(_)
LStrip(s) == IF s # <<>> /\ IsSpace(Head(s)) THEN LStrip(Tail(s)) ELSE s

RECURSIVE RStrip(_)
RStrip(s) ==
    IF s # <<>> /\ IsSpace(s[Len(s)]) THEN RStrip(SubSeq(s, 1, Len(s) - 1)) ELSE s

\* str.strip()
Strip(s) == LStrip(RStrip(s))

HasPrefix(s, p) == Len(s) >= Len(p) /\ SubSeq(s, 1, Len(p)) = p

\* p in s, for texts of characters
IsSubstring(p, s) ==
    \E i \in 0..(Len(s) - Len(p)) : SubSeq(s, i + 1, i + Len(p)) = p

----------------------------------------------------------------------------
(* clean_json_string *)

\* the backquote character
BQ == "BQ"

\* the code fence marker, three backquotes
Fence == <<BQ, BQ, BQ>>

FenceJson == Fence \o <<"j", "s", "o", "n">>

\* re.sub(r'^<fence>json\s*', '', text, flags=re.IGNORECASE)
SubLeadingJsonFence(text) ==
    IF HasPrefix(Lower(Take(text, Len(FenceJson))), FenceJson)
    THEN LStrip(Drop(text, Len(FenceJson)))
    ELSE text

\* re.sub(r'^<fence>\s*', '', text)
SubLeadingFence(text) ==
    IF HasPrefix(text, Fence) THEN LStrip(Drop(text, Len(Fence))) ELSE text

\* re.sub(r'\s*<fence>$', '', text): $ is the end of the text or the place before
\* a newline that ends it; the match is the fence there with the whole run of
\* whitespace before it
SubTrailingFence(text) ==
    LET n == Len(text)
        e == IF n >= 1 /\ text[n] = "\n" THEN n - 1 ELSE n
    IN  IF e >= 3 /\ SubSeq(text, e - 2, e) = Fence
        THEN RStrip(SubSeq(text, 1, e - 3)) \o SubSeq(text, e + 1, n)
        ELSE text

clean_json_string(text) ==
    Strip(SubTrailingFence(SubLeadingFence(SubLeadingJsonFence(text))))

----------------------------------------------------------------------------
(* The course identifier derived from a syllabus title *)

SlugLimit == 50

ReplaceChar(s, a, b) == [i \in 1..Len(s) |-> IF s[i] = a THEN b ELSE s[i]]

\* the class [a-z0-9_]
IsSlugChar(c) ==
    \/ \E i \in 1..26 : LowerChars[i] = c
    \/ \E i \in 1..10 : DigitChars[i] = c
    \/ c = "_"

\* title.lower().replace(' ', '_').replace('-', '_'), then
\* re.sub(r'[^a-z0-9_]', '', ...)[:50]
slug(title) ==
    LET lowered == ReplaceChar(ReplaceChar(Lower(title), " ", "_"), "-", "_")
    IN  Take(SelectSeq(lowered, IsSlugChar), SlugLimit)

----------------------------------------------------------------------------
(* JSON values, as json.loads returns them *)

JNull == [kind |-> "null"]

JNum(n) == [kind |-> "number", v |-> n]

JStr(t) == [kind |-> "string", v |-> t]

JArr(items) == [kind |-> "array", v |-> items]

JObj(members) == [kind |-> "object", v |-> members]

\* the characters of the keys the code looks for
KeyChars(key) ==
    CASE key = "title" -> <<"t", "i", "t", "l", "e">>
      [] key = "topic" -> <<"t", "o", "p", "i", "c">>
      [] OTHER -> <<"m", "o", "d", "u", "l", "e", "s">>

\* Python's type name of a JSON value
PyType(x) ==
    CASE x.kind = "null" -> "NoneType"
      [] x.kind = "number" -> "int"
      [] x.kind = "string" -> "str"
      [] x.kind = "array" -> "list"
      [] x.kind = "object" -> "dict"

\* whether `key in x` raises TypeError
InRaises(x) == x.kind \in {"null", "number"}

\* `key in x` for a dict (a key), a list (an element) and a str (a substring)
PyIn(key, x) ==
    CASE x.kind = "object" -> key \in DOMAIN x.v
      [] x.kind = "array" -> \E i \in 1..Len(x.v) : x.v[i] = JStr(KeyChars(key))
      [] x.kind = "string" -> IsSubstring(KeyChars(key), x.v)

\* whether `x[key]` raises TypeError (the key is known to be `in` x)
SubscriptRaises(x) == x.kind # "object"

\* `not x`
Falsy(x) ==
    CASE x.kind = "null" -> TRUE
      [] x.kind = "number" -> x.v = 0
      [] x.kind = "object" -> DOMAIN x.v = {}
      [] OTHER -> Len(x.v) = 0

\* whether len(x) raises TypeError
LenRaises(x) == x.kind \in {"null", "number"}

\* len(x)
PyLen(x) == IF x.kind = "object" THEN Cardinality(DOMAIN x.v) ELSE Len(x.v)

----------------------------------------------------------------------------
(* The documents of the model and json.loads on them.  The members of an   *)
(* object are written as one piece of the text.                            *)

\* the number of modules generate_syllabus expects
ExpectedModules == 4

Q1 == <<"q1">>

Q2 == <<"q2">>

Q3 == <<"q3">>

\* a Module-spec with a title and lesson titles
ModuleSpec(title, lessons) ==
    JObj([title |-> JStr(title),
          lessons |-> JArr([i \in 1..Len(lessons) |-> JStr(lessons[i])])])

\* two modules, every optional field present; the slug is go_1
SylFull ==
    JObj([title |-> JStr(<<"G", "o", " ", "1">>),
          description |-> JStr(<<"Build Go services">>),
          level |-> JStr(<<"Advanced">>),
          modules |-> JArr(<<ModuleSpec(<<"M1: Foundations">>, <<Q1, Q2>>),
                             ModuleSpec(<<"M2: Patterns">>, <<Q3>>)>>)])

\* no description, no level, a module without a lessons member; the slug is go_1
SylBare ==
    JObj([title |-> JStr(<<"G", "o", "-", "1", "!">>),
          modules |-> JArr(<<JObj([title |-> JStr(<<"M1: Foundations">>)])>>)])

\* no module at all, and a title without a letter or a digit
SylNoModules ==
    JObj([title |-> JStr(<<"!", "?">>),
          level |-> JStr(<<"Beginner">>),
          modules |-> JArr(<<>>)])

\* the second module has no title
SylBadModule ==
    JObj([title |-> JStr(<<"C">>),
          modules |-> JArr(<<ModuleSpec(<<"M1: Foundations">>, <<Q1>>),
                             JObj([lessons |-> JArr(<<JStr(Q2)>>)])>>)])

\* the title is a number
SylNumTitle ==
    JObj([title |-> JNum(7),
          modules |-> JArr(<<ModuleSpec(<<"M1: Foundations">>, <<Q1>>)>>)])

\* both fields present, modules null
SylNullModules == JObj([title |-> JStr(<<"C">>), modules |-> JNull])

\* a title longer than the identifier
SylLongTitle ==
    JObj([title |-> JStr(<<"G", "o", " ">> \o Rep("a", SlugLimit)),
          modules |-> JArr(<<ModuleSpec(<<"M1: Foundations">>, <<Q1>>)>>)])

\* the first module has no lesson, the second has one
SylEmptyFirst ==
    JObj([title |-> JStr(<<"D">>),
          modules |-> JArr(<<ModuleSpec(<<"M1: Foundations">>, <<>>),
                             ModuleSpec(<<"M2: Patterns">>, <<Q2>>)>>)])

\* n modules without lessons
Modules(n) == [i \in 1..n |-> ModuleSpec(<<"M", ToString(i)>>, <<>>)]

\* the expected number of modules, and one more
SylFour == JObj([title |-> JStr(<<"E">>), modules |-> JArr(Modules(ExpectedModules))])

SylFive == JObj([title |-> JStr(<<"F">>), modules |-> JArr(Modules(ExpectedModules + 1))])

\* the title and the identifier of the course of _seed_python_course
PythonMastery == <<"P", "y", "t", "h", "o", "n", " ", "M", "a", "s", "t", "e", "r", "y">>

PythonId == <<"p", "y", "t", "h", "o", "n">>

\* syllabi whose title is the title of the seeded course, or gives its identifier
SylPythonMastery == JObj([title |-> JStr(PythonMastery), modules |-> JArr(Modules(1))])

SylPython ==
    JObj([title |-> JStr(<<"P", "y", "t", "h", "o", "n">>), modules |-> JArr(Modules(1))])

\* the text of an object whose members are the piece name
ObjText(name) == <<"{", name, "}">>

\* valid JSON texts that are no syllabus, each with its value
OtherDocs ==
    << <<<<"5">>, JNum(5)>>,
       <<<<"n", "u", "l", "l">>, JNull>>,
       <<<<"[", "]">>, JArr(<<>>)>>,
       <<<<"[", "\"title\",\"modules\"", "]">>,
         JArr(<<JStr(KeyChars("title")), JStr(KeyChars("modules"))>>)>>,
       <<<<"\"", "a", "\"">>, JStr(<<"a">>)>>,
       <<<<"{", "}">>, JObj(<<>>)>>,
       <<ObjText("\"title\":\"C\""), JObj([title |-> JStr(<<"C">>)])>>,
       <<ObjText("\"modules\":[]"), JObj([modules |-> JArr(<<>>)])>>,
       <<ObjText("null modules"), SylNullModules>> >>

\* the texts of the syllabi, each with its value
SyllabusDocs ==
    << <<ObjText("full"), SylFull>>,
       <<ObjText("bare"), SylBare>>,
       <<ObjText("no modules"), SylNoModules>>,
       <<ObjText("bad module"), SylBadModule>>,
       <<ObjText("number title"), SylNumTitle>>,
       <<ObjText("long title"), SylLongTitle>>,
       <<ObjText("empty first"), SylEmptyFirst>>,
       <<ObjText("four modules"), SylFour>>,
       <<ObjText("five modules"), SylFive>> >>

\* the texts of the syllabi that meet the seeded course
SeedDocs ==
    << <<ObjText("python mastery"), SylPythonMastery>>,
       <<ObjText("python"), SylPython>> >>

\* the valid JSON texts of the model
JsonDocs == OtherDocs \o SyllabusDocs \o SeedDocs

IsJson(text) == \E i \in 1..Len(JsonDocs) : JsonDocs[i][1] = text

\* json.loads(text): the value, or the JSONDecodeError
json_loads(text) ==
    IF IsJson(text)
    THEN [ok |-> TRUE,
          value |-> JsonDocs[CHOOSE i \in 1..Len(JsonDocs) : JsonDocs[i][1] = text][2]]
    ELSE [ok |-> FALSE, diagnostic |-> <<"JSONDecodeError: Expecting value">>]

----------------------------------------------------------------------------
(* generate_syllabus.  The environment of one call: whether GEMINI_API_KEY *)
(* is set, and what the text-generation service does when called:          *)
(*   [kind |-> "raise", exc |-> [type, msg]]   generate_content raises     *)
(*   [kind |-> "no_text"]                      response.text is None       *)
(*   [kind |-> "text", text |-> raw]           response.text is raw        *)
(* The log holds the records of level WARNING and above.                   *)

PreviewLimit == 500

NoValue == [kind |-> "none"]

NoError == [type |-> "none", msg |-> <<>>]

\* an exception with the line it came out of: a line of generate_course, or
\* line 435 or 438 of the handler
At(exc, line) == [type |-> exc.type, msg |-> exc.msg, at |-> line]

NotRaised == At(NoError, 0)

ValueError(msg) == [type |-> "ValueError", msg |-> msg]

LogRecord(level, msg) == [level |-> level, msg |-> msg]

Raise(err, records, called) ==
    [raised |-> TRUE, error |-> err, value |-> NoValue, log |-> records, called |-> called]

Return(value, records, called) ==
    [raised |-> FALSE, error |-> NoError, value |-> value, log |-> records, called |-> called]

\* a second call of the text service after one that raised
ServiceError_Retry(exc, records) ==
    IF exc.type = "ValueError"
    THEN Raise(exc, records, 1)
    ELSE Raise(ValueError(<<"AI service error: ">> \o exc.msg),
               Append(records, LogRecord("error", <<"Gemini API error: ">> \o exc.msg)), 2)

\* lines 127-132: a ValueError is raised again as it is, any other exception
\* becomes ValueError("AI service error: ...")
ServiceError(exc, records) ==
    IF exc.type = "ValueError"
    THEN Raise(exc, records, 1)
    ELSE Raise(ValueError(<<"AI service error: ">> \o exc.msg),
               Append(records, LogRecord("error", <<"Gemini API error: ">> \o exc.msg)), 1)

TypeError(msg) == [type |-> "TypeError", msg |-> msg]

\* a preview that is the whole text
PreviewOf_Whole(cleaned) == cleaned

\* cleaned_text[:500], the preview that is logged
PreviewOf(cleaned) == Take(cleaned, PreviewLimit)

\* a module count that is enforced
ValidateSyllabus_Strict(doc) ==
    IF InRaises(doc)
    THEN ServiceError(TypeError(<<"argument of type '", PyType(doc),
                                  "' is not iterable">>), <<>>)
    ELSE IF ~(PyIn("title", doc) /\ PyIn("modules", doc))
    THEN Raise(ValueError(<<"Missing required fields in syllabus">>), <<>>, 1)
    ELSE IF SubscriptRaises(doc)
    THEN ServiceError(TypeError(<<PyType(doc), " indices must be integers">>), <<>>)
    ELSE IF LenRaises(doc.v.modules)
    THEN ServiceError(TypeError(<<"object of type '", PyType(doc.v.modules),
                                  "' has no len()">>), <<>>)
    ELSE IF PyLen(doc.v.modules) # ExpectedModules
    THEN Raise(ValueError(<<"Expected exactly 4 modules">>), <<>>, 1)
    ELSE Return(doc, <<>>, 1)

\* lines 117-125: the required fields, the module count (a warning), the return
ValidateSyllabus(doc) ==
    IF InRaises(doc)
    THEN ServiceError(TypeError(<<"argument of type '", PyType(doc),
                                  "' is not iterable">>), <<>>)
    ELSE IF ~(PyIn("title", doc) /\ PyIn("modules", doc))
    THEN Raise(ValueError(<<"Missing required fields in syllabus">>), <<>>, 1)
    ELSE IF SubscriptRaises(doc)
    THEN ServiceError(TypeError(<<PyType(doc), " indices must be integers">>), <<>>)
    ELSE IF LenRaises(doc.v.modules)
    THEN ServiceError(TypeError(<<"object of type '", PyType(doc.v.modules),
                                  "' has no len()">>), <<>>)
    ELSE IF PyLen(doc.v.modules) # ExpectedModules
    THEN Return(doc,
                <<LogRecord("warning", <<"Expected exactly 4 modules, got ",
                                         ToString(PyLen(doc.v.modules))>>)>>, 1)
    ELSE Return(doc, <<>>, 1)

\* lines 106-115: clean, parse, and the invalid JSON error
ParseSyllabus(raw_text) ==
    LET cleaned_text == clean_json_string(raw_text)
        parsed == json_loads(cleaned_text)
    IN  IF ~parsed.ok
        THEN Raise(ValueError(<<"AI returned invalid JSON structure">>),
                   <<LogRecord("error", <<"JSON parsing failed: ">> \o parsed.diagnostic),
                     LogRecord("error", <<"Cleaned text: ">> \o PreviewOf(cleaned_text))>>,
                   1)
        ELSE ValidateSyllabus(parsed.value)

\* the text service called before the credential is looked at
generate_syllabus_CallFirst(world) ==
    IF ~world.api_key
    THEN Raise(ValueError(<<"GEMINI_API_KEY environment variable not set">>), <<>>, 1)
    ELSE CASE world.call.kind = "raise" -> ServiceError(world.call.exc, <<>>)
           [] world.call.kind = "no_text" ->
                ServiceError(TypeError(<<"'NoneType' object is not subscriptable">>), <<>>)
           [] world.call.kind = "text" -> ParseSyllabus(world.call.text)

generate_syllabus(world) ==
    IF ~world.api_key
    THEN Raise(ValueError(<<"GEMINI_API_KEY environment variable not set">>), <<>>, 0)
    ELSE CASE world.call.kind = "raise" -> ServiceError(world.call.exc, <<>>)
           [] world.call.kind = "no_text" ->
                ServiceError(TypeError(<<"'NoneType' object is not subscriptable">>), <<>>)
           [] world.call.kind = "text" -> ParseSyllabus(world.call.text)

----------------------------------------------------------------------------
(* search_youtube_video.  What the video-search service does with a        *)
(* request: it raises, or result() is None, or result() is a dict.         *)

SearchRaises == [kind |-> "raise"]

SearchNone == [kind |-> "none"]

SearchDict(d) == [kind |-> "dict", results |-> d]

FallbackId == "dQw4w9WgXcQ"

DefaultDuration == "10:00"

\* a request without the qualifier
SearchRequest_Bare(query) == [q |-> query, limit |-> 1]

\* the request sent to the service: the query with the qualifier, one result
SearchRequest(query) == [q |-> query \o <<" tutorial">>, limit |-> 1]

\* the video the service finds for a query, when it finds one
ServiceVideo(query) ==
    [id |-> CASE query = Q1 -> "vid_q1" [] query = Q2 -> "vid_q2" [] OTHER -> "vid_q3",
     title |-> <<"Video: ">> \o query,
     duration |-> "12:34"]

\* what the service can do with the request for a query
SearchOutcomes(query) ==
    { SearchRaises,
      SearchNone,
      SearchDict(<<>>),
      SearchDict([result |-> <<>>]),
      SearchDict([result |-> <<[title |-> <<"Video: ">> \o query]>>]),
      SearchDict([result |-> <<ServiceVideo(query)>>]) }

\* dict.get(key, default)
Get(d, key, default) == IF key \in DOMAIN d THEN d[key] ELSE default

\* a fallback that hands back the search phrase instead of the query
FallbackVideo_Qualified(query) ==
    [id |-> FallbackId, title |-> SearchRequest(query).q, duration |-> DefaultDuration]

FallbackVideo(query) == [id |-> FallbackId, title |-> query, duration |-> DefaultDuration]

\* lines 143 and 158: no result, or an exception
NoVideo(outcome) ==
    \/ outcome.kind = "raise"
    \/ outcome.kind = "none"
    \/ outcome.kind = "dict" /\ DOMAIN outcome.results = {}
    \/ outcome.kind = "dict" /\ "result" \notin DOMAIN outcome.results
    \/ outcome.kind = "dict" /\ outcome.results.result = <<>>

\* a resolver that answers a failed lookup with an empty record
search_youtube_video_Empty(query, outcome) ==
    IF NoVideo(outcome)
    THEN [id |-> "", title |-> query, duration |-> ""]
    ELSE LET video == outcome.results.result[1]
         IN  [id |-> Get(video, "id", ""),
              title |-> Get(video, "title", query),
              duration |-> Get(video, "duration", DefaultDuration)]

search_youtube_video(query, outcome) ==
    IF NoVideo(outcome)
    THEN FallbackVideo(query)
    ELSE LET video == outcome.results.result[1]
         IN  [id |-> Get(video, "id", ""),
              title |-> Get(video, "title", query),
              duration |-> Get(video, "duration", DefaultDuration)]

----------------------------------------------------------------------------
(* The store and the requests *)

NumReq == 2

Reqs == 1..NumReq

Range(f) == { f[i] : i \in DOMAIN f }

EmptyStore == [courses |-> {}, modules |-> {}, lessons |-> {}]

EmptySession == [courses |-> <<>>, modules |-> <<>>, lessons |-> <<>>]

NoResponse == [status |-> 0, error |-> <<>>, course_id |-> <<>>]

PlaceholderThumbnail == <<"https://img.youtube.com/vi/", "placeholder", "/mqdefault.jpg">>

\* a thumbnail that ignores the video
ThumbnailUrl_Placeholder(video_id) == PlaceholderThumbnail

ThumbnailUrl(video_id) == <<"https://img.youtube.com/vi/", video_id, "/mqdefault.jpg">>

\* a course that is in the store before any request of the model
SeededCourse(id, module, lesson) ==
    [courses |-> { [id |-> id, title |-> <<"Seeded">>, description |-> <<"A seeded course">>,
                    thumbnail_url |-> ThumbnailUrl("seed"), level |-> <<"Beginner">>,
                    is_generated |-> FALSE] },
     modules |-> { [id |-> module, course_id |-> id, title |-> <<"Basics">>,
                    order_index |-> 1] },
     lessons |-> { [id |-> lesson, module_id |-> module, title |-> <<"Variables">>,
                    video_url |-> "seedvid", duration |-> "09:00", order_index |-> 1] }]

\* a commit that replaces the tables
StoreUnion_Replace(a, b) == b

StoreUnion(a, b) ==
    [courses |-> a.courses \cup b.courses,
     modules |-> a.modules \cup b.modules,
     lessons |-> a.lessons \cup b.lessons]

\* the stores a request can find: empty, or holding a course whose identifier
\* is the slug of the titles "Go 1" and "Go-1!"
InitialStores ==
    { EmptyStore,
      SeededCourse(<<"p", "y", "t", "h", "o", "n">>, 1, 1),
      SeededCourse(<<"g", "o", "_", "1">>, 1, 1) }

MaxId(rows) == IF rows = {} THEN 0 ELSE CHOOSE n \in { x.id : x \in rows } :
                                          \A x \in rows : x.id <= n

NoBody == [kind |-> "none"]

HarnessOff ==
    /\ arg = <<>>
    /\ out1 = <<>>
    /\ out2 = <<>>
    /\ fstage = "off"

RequestsIdle ==
    /\ pc = [r \in Reqs |-> "idle"]
    /\ data = [r \in Reqs |-> NoBody]
    /\ calls = [r \in Reqs |-> 0]
    /\ topic = [r \in Reqs |-> <<>>]
    /\ env = [r \in Reqs |-> [api_key |-> FALSE, call |-> [kind |-> "none"]]]
    /\ syllabus = [r \in Reqs |-> NoValue]
    /\ course_id = [r \in Reqs |-> <<>>]
    /\ module_idx = [r \in Reqs |-> 0]
    /\ lesson_idx = [r \in Reqs |-> 0]
    /\ module_id = [r \in Reqs |-> 0]
    /\ session = [r \in Reqs |-> EmptySession]
    /\ error = [r \in Reqs |-> NotRaised]
    /\ response = [r \in Reqs |-> NoResponse]
    /\ searches = [r \in Reqs |-> <<>>]
    /\ log = [r \in Reqs |-> <<>>]
    /\ before = [r \in Reqs |-> EmptyStore]

StoreInit(stores) ==
    /\ committed \in stores
    /\ nextModuleId = MaxId(committed.modules) + 1
    /\ nextLessonId = MaxId(committed.lessons) + 1

\* the users that are logged in: rows of the table User
NumUsers == 2

UserIds == 1..NumUsers

UserRows == { [id |-> u, username |-> <<"user", ToString(u)>>] : u \in UserIds }

\* the topics progress is recorded for: titles of lessons
Variables == <<"Variables">>

Closures == <<"Closures">>

Topics == { Variables, Closures }

\* a row of the table UserProgress; last_watched is left out; the timestamp is
\* <<>> for None, or the number in a tuple
ProgressRow(id, user_id, topic_id, is_completed, timestamp) ==
    [id |-> id, user_id |-> user_id, topic_id |-> topic_id,
     is_completed |-> is_completed, timestamp |-> timestamp]

\* one lesson completed by the first user
SomeProgress == { ProgressRow(1, 1, Variables, TRUE, <<>>) }

NoRead == [kind |-> "none"]

\* the tables User and UserProgress, and what the rows say was sent last
AccountsInit(tables) ==
    /\ users = UserRows
    /\ user_progress \in tables
    /\ latest = [k \in UserIds \X Topics |->
                    IF \E p \in user_progress : p.user_id = k[1] /\ p.topic_id = k[2]
                    THEN <<(CHOOSE p \in user_progress :
                                p.user_id = k[1] /\ p.topic_id = k[2]).is_completed>>
                    ELSE <<>>]
    /\ read = NoRead

NumUpd == 2

Upds == 1..NumUpd

NumSeed == 2

Seeds == 1..NumSeed

NoUpdate == [pc |-> "idle", user |-> 0, data |-> <<>>, progress |-> 0,
             response |-> [status |-> 0, text |-> <<>>]]

NoSeed == [pc |-> "idle", response |-> [status |-> 0, text |-> <<>>]]

\* no request of the progress routes or of the seed route is open
OthersIdle ==
    /\ upd = [u \in Upds |-> NoUpdate]
    /\ seed = [k \in Seeds |-> NoSeed]

Init ==
    /\ HarnessOff
    /\ StoreInit(InitialStores)
    /\ RequestsIdle
    /\ AccountsInit({SomeProgress})
    /\ OthersIdle

----------------------------------------------------------------------------
(* POST /api/generate: generate_course_api and generate_course *)

TopicLimit == 100

SuffixLow == 100

SuffixHigh == 999

RECURSIVE Digits(_)
\* the decimal digits of n, as f"{n}" writes them
Digits(n) ==
    IF n < 10 THEN <<DigitChars[n + 1]>>
    ELSE Digits(n \div 10) \o <<DigitChars[(n % 10) + 1]>>

\* the values random.randint(100, 999) is drawn from in the model
Suffixes == {SuffixLow, SuffixHigh}

\* request bodies: not JSON, or a JSON value
BodyInvalid == [kind |-> "invalid"]

BodyJson(value) == [kind |-> "json", value |-> value]

\* a body with the topic t
TopicBody(t) == BodyJson(JObj([topic |-> JStr(t)]))

GoTopic == <<" ", "G", "o", " ">>

Bodies ==
    { BodyInvalid,
      BodyJson(JNull),
      BodyJson(JNum(5)),
      BodyJson(JArr(<<JStr(KeyChars("topic"))>>)),
      BodyJson(JObj(<<>>)),
      BodyJson(JObj([subject |-> JStr(GoTopic)])),
      TopicBody(<<>>),
      TopicBody(<<" ", "\n">>),
      TopicBody(GoTopic),
      TopicBody(<<" ">> \o Rep("x", TopicLimit) \o <<" ">>),
      TopicBody(Rep("x", TopicLimit + 1)) }

Answer(status, err, id) == [status |-> status, error |-> err, course_id |-> id]

\* lines 428-445: the checks of the request body
Receive(r, bodies) ==
    /\ pc[r] = "idle"
    /\ \E body \in bodies :
        LET reject(msg) ==
                /\ response' = [response EXCEPT ![r] = Answer(400, <<msg>>, <<>>)]
                /\ pc' = [pc EXCEPT ![r] = "done"]
                /\ UNCHANGED <<topic, error>>
            raise(exc, line) ==
                /\ error' = [error EXCEPT ![r] = At(exc, line)]
                /\ pc' = [pc EXCEPT ![r] = "raised"]
                /\ UNCHANGED <<topic, response>>
        IN  /\ data' = [data EXCEPT ![r] = body]
            /\ IF body.kind = "invalid"
               THEN reject("Invalid JSON in request body")
               ELSE IF Falsy(body.value)
               THEN reject("Missing 'topic' in request body")
               ELSE IF InRaises(body.value)
               THEN raise(TypeError(<<"argument of type '", PyType(body.value),
                                      "' is not iterable">>), 435)
               ELSE IF ~PyIn("topic", body.value)
               THEN reject("Missing 'topic' in request body")
               ELSE IF SubscriptRaises(body.value)
               THEN raise(TypeError(<<PyType(body.value), " indices must be integers">>),
                          438)
               ELSE IF Strip(body.value.v.topic.v) = <<>>
               THEN reject("Topic cannot be empty")
               ELSE IF Len(Strip(body.value.v.topic.v)) > TopicLimit
               THEN reject("Topic too long (max 100 characters)")
               ELSE /\ topic' = [topic EXCEPT ![r] = Strip(body.value.v.topic.v)]
                    /\ pc' = [pc EXCEPT ![r] = "generate"]
                    /\ UNCHANGED <<response, error>>
    /\ before' = [before EXCEPT ![r] = committed]
    /\ UNCHANGED <<fvars, avars, dbvars, calls, env, syllabus, course_id, module_idx, lesson_idx,
                   module_id, session, searches, log>>

\* what the text-generation service can do
ServiceExceptions ==
    { [type |-> "ClientError",
       msg |-> <<"429", " RESOURCE_EXHAUSTED. You exceeded your current ", "quota">>],
      [type |-> "ClientError",
       msg |-> <<"404", " NOT_FOUND. models/gemini-pro is ", "not found">>],
      [type |-> "ConnectError", msg |-> <<"[Errno 111] Connection refused">>] }

\* the ways a document is wrapped in the response text
Wrapped(w, t) ==
    CASE w = "plain" -> t
      [] w = "json fence" -> Concat(<<FenceJson, <<"\n">>, t, <<"\n">>, Fence>>)
      [] w = "fence" -> Concat(<<Fence, <<"\n">>, t, <<"\n">>, Fence>>)
      [] w = "json fence, blank line" ->
            Concat(<<FenceJson, <<"\n">>, t, <<"\n">>, Fence, <<"\n", "\n">>>>)

OtherDocTexts == { OtherDocs[i][1] : i \in 1..Len(OtherDocs) }

SyllabusDocTexts == { SyllabusDocs[i][1] : i \in 1..Len(SyllabusDocs) }

\* texts that are not JSON: short, and around the length of the logged preview
Garbage ==
    { <<"S", "u", "r", "e", "!", " ">> \o ObjText("full") }
    \cup { Rep("x", n) : n \in (PreviewLimit - 1)..(PreviewLimit + 1) }

Responses ==
    { Wrapped(w, t) : w \in {"plain", "json fence", "fence", "json fence, blank line"},
                      t \in OtherDocTexts }
    \cup { Wrapped(w, t) : w \in {"plain", "json fence"}, t \in SyllabusDocTexts }
    \cup { Wrapped("json fence, blank line", ObjText("full")) }
    \cup Garbage

NoKey == [api_key |-> FALSE, call |-> [kind |-> "none"]]

WithKey(call) == [api_key |-> TRUE, call |-> call]

Envs ==
    { NoKey, WithKey([kind |-> "no_text"]) }
    \cup { WithKey([kind |-> "raise", exc |-> e]) : e \in ServiceExceptions }
    \cup { WithKey([kind |-> "text", text |-> t]) : t \in Responses }

\* line 179: the call of generate_syllabus
GenerateSyllabus(r, envs) ==
    /\ pc[r] = "generate"
    /\ \E e \in envs :
        LET res == generate_syllabus(e)
        IN  /\ env' = [env EXCEPT ![r] = e]
            /\ log' = [log EXCEPT ![r] = log[r] \o res.log]
            /\ syllabus' = [syllabus EXCEPT ![r] = res.value]
            /\ error' = [error EXCEPT ![r] =
                            IF res.raised THEN At(res.error, 179) ELSE NotRaised]
            /\ pc' = [pc EXCEPT ![r] = IF res.raised THEN "raised" ELSE "derive"]
            /\ calls' = [calls EXCEPT ![r] = @ + res.called]
    /\ UNCHANGED <<fvars, avars, dbvars, data, topic, course_id, module_idx, lesson_idx, module_id,
                   session, response, searches, before>>

Exception(type, msg) == [type |-> type, msg |-> msg]

\* the text SQLAlchemy puts in an exception raised by a statement
CourseInsertSql ==
    <<"[SQL: INSERT INTO course (id, title, description, thumbnail_url, level, is_gene",
      "rate", "d, created_at) VALUES (?, ?, ?, ?, ?, ?, ?)]">>

ModuleInsertSql == <<"[SQL: INSERT INTO module (course_id, title, order_index) VALUES (?, ?, ?)]">>

\* a failure of the store that does not depend on the rows
StoreDown == <<"(OperationalError) server closed the connection unexpectedly">>

\* an existence check that finds nothing
Existing_Never(id) == FALSE

\* line 187: Course.query.filter_by(id=course_id).first()
Existing(id) == \E c \in committed.courses : c.id = id

\* the Course added to the session before the title is turned into a slug
DeriveId_CourseFirst(r) ==
    /\ pc[r] = "derive"
    /\ session' = [session EXCEPT ![r].courses =
                      <<[id |-> <<>>, title |-> syllabus[r].v.title.v]>>]
    /\ LET title == syllabus[r].v.title
       IN  IF title.kind # "string"
           THEN /\ error' = [error EXCEPT ![r] =
                        At([type |-> "AttributeError", msg |-> <<"no attribute 'lower'">>],
                           183)]
                /\ pc' = [pc EXCEPT ![r] = "raised"]
                /\ UNCHANGED course_id
           ELSE /\ course_id' = [course_id EXCEPT ![r] = slug(title.v)]
                /\ pc' = [pc EXCEPT ![r] = "create"]
                /\ UNCHANGED error
    /\ UNCHANGED <<fvars, avars, dbvars, data, calls, topic, env, syllabus, module_idx, lesson_idx, module_id,
                   response, searches, log, before>>

\* lines 180-191: the identifier, the existence check, the suffix
DeriveId(r) ==
    /\ pc[r] = "derive"
    /\ LET title == syllabus[r].v.title
       IN  IF title.kind # "string"
           THEN /\ error' = [error EXCEPT ![r] =
                        At(Exception("AttributeError",
                                     <<"'", PyType(title),
                                       "' object has no attribute 'lower'">>), 183)]
                /\ pc' = [pc EXCEPT ![r] = "raised"]
                /\ UNCHANGED course_id
           ELSE /\ IF Existing(slug(title.v))
                   THEN \E n \in Suffixes :
                            course_id' = [course_id EXCEPT ![r] =
                                              slug(title.v) \o <<"_">> \o Digits(n)]
                   ELSE course_id' = [course_id EXCEPT ![r] = slug(title.v)]
                /\ pc' = [pc EXCEPT ![r] = "create"]
                /\ UNCHANGED error
    /\ UNCHANGED <<fvars, avars, dbvars, data, calls, topic, env, syllabus, module_idx, lesson_idx, module_id,
                   session, response, searches, log, before>>

\* a get that ignores the member
GetText_Default(obj, key, default) == default

\* dict.get(key, default) on the members of a JSON object, for a text
GetText(obj, key, default) == IF key \in DOMAIN obj.v THEN obj.v[key].v ELSE default

\* lines 194-201
NewCourse(id, syl, topic_name) ==
    [id |-> id,
     title |-> syl.v.title.v,
     description |-> GetText(syl, "description",
                             <<"Master ">> \o topic_name \o <<" from scratch">>),
     thumbnail_url |-> PlaceholderThumbnail,
     level |-> GetText(syl, "level", <<"Beginner">>),
     is_generated |-> TRUE]

\* seed call k has inserted the Course of _seed_python_course in a transaction
\* that is still open: the flush of index.py line 508 went through
SeedHolds(k, id) == seed[k].pc = "rows" /\ id = PythonId

\* a store in which an open transaction holds nothing
HoldsCourse_Never(q, id) == FALSE

\* request q has inserted a Course with the identifier in a transaction that
\* is still open: the flush of line 203 went through, and neither a commit nor
\* a rollback has ended the transaction (a failed flush or commit ends it)
HoldsCourse(q, id) ==
    /\ session[q].courses # <<>>
    /\ session[q].courses[1].id = id
    /\ \/ pc[q] \in {"module", "lesson"}
       \/ pc[q] = "raised" /\ error[q].at = 209

\* lines 193-203: the Course, add, flush.  The INSERT waits while another
\* transaction holds the identifier, fails on an identifier that is taken, and
\* can fail for reasons of the store's own.
CreateCourse(r) ==
    /\ pc[r] = "create"
    /\ \A q \in Reqs \ {r} : ~HoldsCourse(q, course_id[r])
    /\ \A k \in Seeds : ~SeedHolds(k, course_id[r])
    /\ session' = [session EXCEPT ![r].courses =
                      <<NewCourse(course_id[r], syllabus[r], topic[r])>>]
    /\ \E store_ok \in BOOLEAN :
        IF Existing(course_id[r])
        THEN /\ error' = [error EXCEPT ![r] =
                     At(Exception("IntegrityError",
                                  <<"(IntegrityError) UNIQUE constraint failed: course.id">>
                                  \o CourseInsertSql), 203)]
             /\ pc' = [pc EXCEPT ![r] = "raised"]
        ELSE IF ~store_ok
        THEN /\ error' = [error EXCEPT ![r] =
                     At(Exception("OperationalError", StoreDown \o CourseInsertSql), 203)]
             /\ pc' = [pc EXCEPT ![r] = "raised"]
        ELSE /\ pc' = [pc EXCEPT ![r] = "module"]
             /\ UNCHANGED error
    /\ module_idx' = [module_idx EXCEPT ![r] = 0]
    /\ UNCHANGED <<fvars, avars, dbvars, data, calls, topic, env, syllabus, course_id, lesson_idx, module_id,
                   response, searches, log, before>>

\* the modules of the syllabus, and the lesson titles of module i (1-based)
ModulesOf(syl) == syl.v.modules.v

LessonsOf(module_data) ==
    IF "lessons" \in DOMAIN module_data.v THEN module_data.v.lessons.v ELSE <<>>

\* lines 206-215: the next Module, add, flush, its lessons
CreateModule(r) ==
    /\ pc[r] = "module"
    /\ module_idx[r] < Len(ModulesOf(syllabus[r]))
    /\ LET module_data == ModulesOf(syllabus[r])[module_idx[r] + 1]
       IN  IF "title" \notin DOMAIN module_data.v
           THEN /\ error' = [error EXCEPT ![r] =
                            At(Exception("KeyError", <<"'title'">>), 209)]
                /\ pc' = [pc EXCEPT ![r] = "raised"]
                /\ UNCHANGED <<session, nextModuleId, module_id, module_idx, lesson_idx>>
           ELSE /\ session' = [session EXCEPT ![r].modules =
                        Append(@, [id |-> nextModuleId,
                                   course_id |-> course_id[r],
                                   title |-> module_data.v.title.v,
                                   order_index |-> module_idx[r] + 1])]
                /\ \E store_ok \in BOOLEAN :
                    IF ~store_ok
                    THEN /\ error' = [error EXCEPT ![r] =
                                 At(Exception("OperationalError",
                                              StoreDown \o ModuleInsertSql), 213)]
                         /\ pc' = [pc EXCEPT ![r] = "raised"]
                         /\ UNCHANGED <<nextModuleId, module_id, module_idx, lesson_idx>>
                    ELSE /\ nextModuleId' = nextModuleId + 1
                         /\ module_id' = [module_id EXCEPT ![r] = nextModuleId]
                         /\ lesson_idx' = [lesson_idx EXCEPT ![r] = 0]
                         /\ IF LessonsOf(module_data) = <<>>
                            THEN /\ module_idx' = [module_idx EXCEPT ![r] = @ + 1]
                                 /\ pc' = pc
                            ELSE /\ pc' = [pc EXCEPT ![r] = "lesson"]
                                 /\ UNCHANGED module_idx
                         /\ UNCHANGED error
    /\ UNCHANGED <<fvars, avars, committed, nextLessonId, data, calls, topic, env, syllabus, course_id,
                   response, searches, log, before>>

\* lines 216-232: the video of the next lesson, the Lesson, add, the thumbnail
CreateLesson(r) ==
    /\ pc[r] = "lesson"
    /\ LET lessons == LessonsOf(ModulesOf(syllabus[r])[module_idx[r] + 1])
           lesson_title == lessons[lesson_idx[r] + 1].v
       IN  /\ \E outcome \in SearchOutcomes(lesson_title) :
                LET video_info == search_youtube_video(lesson_title, outcome)
                    lesson == [id |-> 0,
                               module_id |-> module_id[r],
                               title |-> lesson_title,
                               video_url |-> video_info.id,
                               duration |-> video_info.duration,
                               order_index |-> lesson_idx[r] + 1]
                IN  /\ searches' = [searches EXCEPT ![r] =
                            Append(@, [request |-> SearchRequest(lesson_title),
                                       outcome |-> outcome,
                                       returned |-> video_info,
                                       module_idx |-> module_idx[r],
                                       lesson_idx |-> lesson_idx[r]])]
                    /\ session' = [session EXCEPT
                            ![r].lessons = Append(@, lesson),
                            ![r].courses =
                                IF module_idx[r] = 0 /\ lesson_idx[r] = 0
                                THEN <<[@[1] EXCEPT !.thumbnail_url =
                                                        ThumbnailUrl(video_info.id)]>>
                                ELSE @]
           /\ IF lesson_idx[r] + 1 < Len(lessons)
              THEN /\ lesson_idx' = [lesson_idx EXCEPT ![r] = @ + 1]
                   /\ UNCHANGED <<module_idx, pc>>
              ELSE /\ module_idx' = [module_idx EXCEPT ![r] = @ + 1]
                   /\ pc' = [pc EXCEPT ![r] = "module"]
                   /\ UNCHANGED lesson_idx
    /\ UNCHANGED <<fvars, avars, dbvars, data, calls, topic, env, syllabus, course_id, module_id, error,
                   response, log, before>>

\* a commit that numbers every lesson 1
Inserted_Renumbered(sess, first_lesson_id) ==
    [courses |-> Range(sess.courses),
     modules |-> Range(sess.modules),
     lessons |-> { [sess.lessons[i] EXCEPT !.id = first_lesson_id + i - 1,
                                           !.order_index = 1] :
                    i \in 1..Len(sess.lessons) }]

\* a commit that keeps the Course and loses what hangs under it
Inserted_CourseOnly(sess, first_lesson_id) ==
    [courses |-> Range(sess.courses), modules |-> {}, lessons |-> {}]

\* the rows of a session as the store keeps them: the lessons get their ids
\* in the order they were added
Inserted(sess, first_lesson_id) ==
    [courses |-> Range(sess.courses),
     modules |-> Range(sess.modules),
     lessons |-> { [sess.lessons[i] EXCEPT !.id = first_lesson_id + i - 1] :
                    i \in 1..Len(sess.lessons) }]

\* line 234: db.session.commit(): everything the session holds, or nothing
Commit(r) ==
    /\ pc[r] = "module"
    /\ module_idx[r] = Len(ModulesOf(syllabus[r]))
    /\ \E store_ok \in BOOLEAN :
        IF store_ok
        THEN /\ committed' = StoreUnion(committed, Inserted(session[r], nextLessonId))
             /\ nextLessonId' = nextLessonId + Len(session[r].lessons)
             /\ session' = [session EXCEPT ![r] = EmptySession]
             /\ pc' = [pc EXCEPT ![r] = "returned"]
             /\ UNCHANGED error
        ELSE /\ error' = [error EXCEPT ![r] =
                     At(Exception("OperationalError", StoreDown), 234)]
             /\ pc' = [pc EXCEPT ![r] = "raised"]
             /\ UNCHANGED <<committed, nextLessonId, session>>
    /\ UNCHANGED <<fvars, avars, nextModuleId, data, calls, topic, env, syllabus, course_id, module_idx,
                   lesson_idx, module_id, response, searches, log, before>>

\* lines 237 and 455-458: the identifier goes back in the answer
Respond(r) ==
    /\ pc[r] = "returned"
    /\ response' = [response EXCEPT ![r] =
                       Answer(200, <<>>, course_id[r])]
    /\ pc' = [pc EXCEPT ![r] = "done"]
    /\ UNCHANGED <<fvars, avars, dbvars, data, calls, topic, env, syllabus, course_id, module_idx, lesson_idx,
                   module_id, session, error, searches, log, before>>

\* lines 460-463: a ValueError is answered 400 with its text
HandleValueError(r) ==
    /\ pc[r] = "raised"
    /\ error[r].type = "ValueError"
    /\ response' = [response EXCEPT ![r] = Answer(400, error[r].msg, <<>>)]
    /\ pc' = [pc EXCEPT ![r] = "done"]
    /\ UNCHANGED <<fvars, avars, dbvars, data, calls, topic, env, syllabus, course_id, module_idx, lesson_idx,
                   module_id, session, error, searches, log, before>>

\* str.lower() on the pieces of an error text that are written capitalised
LowerPiece(piece) ==
    CASE piece = "Rate" -> "rate"
      [] piece = "Quota" -> "quota"
      [] piece = "Not Found" -> "not found"
      [] OTHER -> piece

\* `pattern in error_str`, the text lowered
HasPattern(msg, patterns) == \E i \in 1..Len(msg) : LowerPiece(msg[i]) \in patterns

BusyMessage == <<"AI is busy or cooling down. Please wait 30 seconds and try again.">>

\* lines 477-493: the status and the error text for an exception's text
AnswerFor(error_str) ==
    IF HasPattern(error_str, {"429", "rate", "quota"})
    THEN Answer(503, BusyMessage, <<>>)
    ELSE IF HasPattern(error_str, {"404", "not found"})
    THEN Answer(503, BusyMessage, <<>>)
    ELSE Answer(500, error_str, <<>>)

\* the answer without the rollback
HandleException_NoRollback(r) ==
    /\ pc[r] = "raised"
    /\ error[r].type # "ValueError"
    /\ response' = [response EXCEPT ![r] = AnswerFor(error[r].msg)]
    /\ pc' = [pc EXCEPT ![r] = "done"]
    /\ UNCHANGED <<fvars, avars, dbvars, data, calls, topic, env, syllabus, course_id, module_idx,
                   lesson_idx, module_id, session, error, searches, log, before>>

\* lines 465-493: any other exception: rollback, then 503 or 500
HandleException(r) ==
    /\ pc[r] = "raised"
    /\ error[r].type # "ValueError"
    /\ session' = [session EXCEPT ![r] = EmptySession]
    /\ response' = [response EXCEPT ![r] = AnswerFor(error[r].msg)]
    /\ pc' = [pc EXCEPT ![r] = "done"]
    /\ UNCHANGED <<fvars, avars, dbvars, data, calls, topic, env, syllabus, course_id, module_idx, lesson_idx,
                   module_id, error, searches, log, before>>

\* one request, with every body and every behaviour of the services
Next ==
    \E r \in {1} :
        \/ Receive(r, Bodies)
        \/ GenerateSyllabus(r, Envs)
        \/ DeriveId(r)
        \/ CreateCourse(r)
        \/ CreateModule(r)
        \/ CreateLesson(r)
        \/ Commit(r)
        \/ Respond(r)
        \/ HandleValueError(r)
        \/ HandleException(r)

Spec == Init /\ [][Next]_vars

----------------------------------------------------------------------------
(* Several requests: one after the other, and at the same time.  Every     *)
(* request has the same good body; the text service is out of order, or    *)
(* returns one of two syllabi: one with the slug go_1 and a module without *)
(* lessons, one with a slug of 50 characters and a lesson.                 *)

PlainText(name) == WithKey([kind |-> "text", text |-> ObjText(name)])

LeanBodies == { TopicBody(GoTopic) }

LeanEnvs ==
    { PlainText("bare"), PlainText("long title"),
      WithKey([kind |-> "raise",
               exc |-> [type |-> "ConnectError",
                        msg |-> <<"[Errno 111] Connection refused">>]]) }

\* the steps of request r after it was received
Handle(r) ==
    \/ GenerateSyllabus(r, LeanEnvs)
    \/ DeriveId(r)
    \/ CreateCourse(r)
    \/ CreateModule(r)
    \/ CreateLesson(r)
    \/ Commit(r)
    \/ Respond(r)
    \/ HandleValueError(r)
    \/ HandleException(r)

\* a request arrives when the requests before it have been answered
NextSeq ==
    \E r \in Reqs :
        \/ (\A q \in 1..(r - 1) : pc[q] = "done") /\ Receive(r, LeanBodies)
        \/ Handle(r)

SpecSeq == Init /\ [][NextSeq]_vars

\* requests arrive and proceed in any order
NextConc ==
    \E r \in Reqs :
        \/ Receive(r, LeanBodies)
        \/ Handle(r)

SpecConc == Init /\ [][NextConc]_vars

----------------------------------------------------------------------------
(* Properties of a generation request *)

\* the rows committed since request r arrived
NewRows(r) ==
    [courses |-> committed.courses \ before[r].courses,
     modules |-> committed.modules \ before[r].modules,
     lessons |-> committed.lessons \ before[r].lessons]

\* new holds the Course of request r, one Module per module of its syllabus
\* and one Lesson per lesson title, and nothing else
CompleteCourse(new, r) ==
    LET mods == ModulesOf(syllabus[r])
    IN  /\ \E c \in new.courses : new.courses = {c} /\ c.id = course_id[r]
        /\ \A m \in new.modules :
              m.course_id = course_id[r] /\ m.order_index \in 1..Len(mods)
        /\ \A i \in 1..Len(mods) :
              Cardinality({ m \in new.modules : m.order_index = i }) = 1
        /\ \A l \in new.lessons :
              \E m \in new.modules :
                  /\ l.module_id = m.id
                  /\ l.order_index \in 1..Len(LessonsOf(mods[m.order_index]))
        /\ \A m \in new.modules :
              \A j \in 1..Len(LessonsOf(mods[m.order_index])) :
                  Cardinality({ l \in new.lessons :
                                  /\ l.module_id = m.id
                                  /\ l.order_index = j
                                  /\ l.title = LessonsOf(mods[m.order_index])[j].v }) = 1

NoOrphans ==
    /\ \A m \in committed.modules : \E c \in committed.courses : c.id = m.course_id
    /\ \A l \in committed.lessons : \E m \in committed.modules : m.id = l.module_id

\* C1: at every moment of a request, and after it has ended in any way, the
\* committed store holds either none of its rows or its Course with exactly one
\* Module per syllabus module and one Lesson per lesson title; no Module or
\* Lesson is committed without its parent.
C1_AllOrNothing ==
    /\ NoOrphans
    /\ \A r \in Reqs :
          pc[r] # "idle" =>
              \/ NewRows(r) = EmptyStore
              \/ syllabus[r].kind = "object" /\ CompleteCourse(NewRows(r), r)

\* a request that ended after it failed with rows staged: the second module of
\* its syllabus had no title, the first one and its lesson were in the session
C1_FailedAfterStaging ==
    /\ pc[1] = "done"
    /\ error[1].at = 209
    /\ Len(searches[1]) > 0
    /\ committed = before[1]

\* C2: a request that failed in generate_syllabus (line 179: the service raised,
\* the text is no JSON, a field is missing) or at the slug (line 183) has added
\* no row to the session, and the store holds the rows it held before.
C2_EarlyFailureWritesNothing ==
    \A r \in Reqs :
        error[r].at \in {179, 183} =>
            session[r] = EmptySession /\ committed = before[r]

\* the service raised a rate-limit error and the request has ended
C2_RateLimited ==
    /\ pc[1] = "done"
    /\ error[1].at = 179
    /\ env[1].call.kind = "raise"
    /\ env[1].call.exc.msg[1] = "429"
    /\ before[1] # EmptyStore

\* the lesson title a recorded search was made for
QueryOf(r, s) ==
    LessonsOf(ModulesOf(syllabus[r])[s.module_idx + 1])[s.lesson_idx + 1].v

\* the service raised, or returned nothing, or no 'result' list, or an empty one
NothingFound(outcome) ==
    \/ outcome.kind \in {"raise", "none"}
    \/ outcome.kind = "dict" /\ "result" \notin DOMAIN outcome.results
    \/ outcome.kind = "dict" /\ outcome.results.result = <<>>

\* C3: whenever the video-search service returns no result or raises,
\* search_youtube_video returns the record {id: 'dQw4w9WgXcQ', title: the
\* original query, duration: '10:00'}.
C3_FallbackRecord ==
    \A r \in Reqs : \A i \in 1..Len(searches[r]) :
        NothingFound(searches[r][i].outcome) =>
            searches[r][i].returned =
                [id |-> "dQw4w9WgXcQ", title |-> QueryOf(r, searches[r][i]),
                 duration |-> "10:00"]

\* a search that raised and one whose result had no 'result' list
C3_SearchFailed ==
    \E i, j \in 1..Len(searches[1]) :
        /\ searches[1][i].outcome.kind = "raise"
        /\ searches[1][j].outcome.kind = "dict"
        /\ "result" \notin DOMAIN searches[1][j].outcome.results

\* request r has built every module and is about to commit
AtCommit(r) ==
    /\ pc[r] = "module"
    /\ module_idx[r] = Len(ModulesOf(syllabus[r]))

\* the (module, lesson) index pairs of a syllabus, in syllabus order
RECURSIVE LessonPairs(_, _)
LessonPairs(mods, i) ==
    IF i > Len(mods) THEN <<>>
    ELSE [j \in 1..Len(LessonsOf(mods[i])) |-> <<i, j>>] \o LessonPairs(mods, i + 1)

\* the session of r holds the Course (with the given thumbnail), the Modules and
\* the Lessons of its syllabus; a Lesson whose lookup failed has the fallback
\* id and duration, every other Lesson what the service returned
StagedAsExpected(r, thumbnail) ==
    LET mods == ModulesOf(syllabus[r])
        pairs == LessonPairs(mods, 1)
        sess == session[r]
    IN  /\ sess.courses =
              <<[NewCourse(course_id[r], syllabus[r], topic[r])
                     EXCEPT !.thumbnail_url = thumbnail]>>
        /\ Len(sess.modules) = Len(mods)
        /\ \A i \in 1..Len(mods) :
              /\ sess.modules[i].course_id = course_id[r]
              /\ sess.modules[i].title = mods[i].v.title.v
              /\ sess.modules[i].order_index = i
        /\ Len(sess.lessons) = Len(pairs)
        /\ Len(searches[r]) = Len(pairs)
        /\ \A k \in 1..Len(pairs) :
              LET l == sess.lessons[k]
                  s == searches[r][k]
                  video == s.outcome.results.result[1]
              IN  /\ l.module_id = sess.modules[pairs[k][1]].id
                  /\ l.order_index = pairs[k][2]
                  /\ l.title = LessonsOf(mods[pairs[k][1]])[pairs[k][2]].v
                  /\ IF NothingFound(s.outcome)
                     THEN l.video_url = "dQw4w9WgXcQ" /\ l.duration = "10:00"
                     ELSE /\ l.video_url = Get(video, "id", "")
                          /\ l.duration = Get(video, "duration", "10:00")

\* the id the first lookup of r gives when it succeeds
FirstIdOnSuccess(r) ==
    LET s == searches[r][1]
    IN  IF NothingFound(s.outcome) THEN ServiceVideo(QueryOf(r, s)).id
        ELSE Get(s.outcome.results.result[1], "id", "")

\* the id the first lookup of r gave
FirstIdReturned(r) ==
    LET s == searches[r][1]
    IN  IF NothingFound(s.outcome) THEN "dQw4w9WgXcQ"
        ELSE Get(s.outcome.results.result[1], "id", "")

\* whether the first module of r's syllabus has a lesson
HasFirstLesson(r) ==
    /\ Len(ModulesOf(syllabus[r])) > 0
    /\ Len(LessonsOf(ModulesOf(syllabus[r])[1])) > 0

\* C4 as claimed: whatever lookups fail, the request reaches the commit with the
\* rows of the run in which every lookup succeeds, but for the video id and the
\* duration of the lessons whose lookup failed; no lookup raises (line 219).
C4_OnlyLessonsDiffer ==
    \A r \in Reqs :
        /\ error[r].at # 219
        /\ AtCommit(r) =>
              StagedAsExpected(r, IF HasFirstLesson(r)
                                  THEN ThumbnailUrl(FirstIdOnSuccess(r))
                                  ELSE PlaceholderThumbnail)

\* C4 amended: as C4, and the Course thumbnail differs too when the lookup of
\* the first lesson of the first module failed: it is built from the fallback id.
C4_LessonsAndThumbnailDiffer ==
    \A r \in Reqs :
        /\ error[r].at # 219
        /\ AtCommit(r) =>
              StagedAsExpected(r, IF HasFirstLesson(r)
                                  THEN ThumbnailUrl(FirstIdReturned(r))
                                  ELSE PlaceholderThumbnail)

\* about to commit three lessons: the first lookup failed, the second found a
\* video, the third raised
C4_MixedLookups ==
    /\ AtCommit(1)
    /\ Len(searches[1]) = 3
    /\ NothingFound(searches[1][1].outcome)
    /\ ~NothingFound(searches[1][2].outcome)
    /\ searches[1][3].outcome.kind = "raise"

\* the text service answered request r with a text
GotText(r) == env[r].api_key /\ env[r].call.kind = "text"

\* what json.loads makes of the cleaned answer
Parsed(r) == json_loads(clean_json_string(env[r].call.text))

\* title and modules are top-level fields of the value
HasRequiredFields(value) ==
    value.kind = "object" /\ {"title", "modules"} \subseteq DOMAIN value.v

MissingFieldError == ValueError(<<"Missing required fields in syllabus">>)

InvalidJsonError == ValueError(<<"AI returned invalid JSON structure">>)

\* the exception of r without its line
Raised(r) == [type |-> error[r].type, msg |-> error[r].msg]

\* C7: a response that parses as JSON (object, array, string, number, null) and
\* does not have both title and modules as top-level fields makes
\* generate_syllabus signal the missing-field error; no syllabus is returned and
\* nothing is persisted.
C7_MissingFieldSignalled ==
    \A r \in Reqs :
        (GotText(r) /\ Parsed(r).ok /\ ~HasRequiredFields(Parsed(r).value)) =>
            /\ Raised(r) = MissingFieldError
            /\ syllabus[r] = NoValue
            /\ session[r] = EmptySession
            /\ committed = before[r]

\* the text logged as the preview of the cleaned answer of r
LoggedPreview(r) == Drop(log[r][2].msg, 1)

\* the cleaned answer of r is no JSON
NotJson(r) == GotText(r) /\ ~Parsed(r).ok

\* C8 as claimed: for a cleaned text that is no JSON the invalid JSON error is
\* signalled, no syllabus is returned, and the error carries the parser's
\* diagnostic and a preview of at most 500 characters that is not the full text.
C8_ErrorCarriesBoundedPreview ==
    \A r \in Reqs :
        NotJson(r) =>
            /\ error[r].type = "ValueError"
            /\ HasPrefix(error[r].msg, <<"AI returned invalid JSON structure">>)
            /\ syllabus[r] = NoValue
            /\ \E preview \in { Take(clean_json_string(env[r].call.text), n) :
                                  n \in 0..PreviewLimit } :
                  /\ error[r].msg = <<"AI returned invalid JSON structure">>
                                    \o Parsed(r).diagnostic \o preview
                  /\ preview # clean_json_string(env[r].call.text)

\* C8 amended: for a cleaned text that is no JSON the invalid JSON error is
\* signalled (its text is the fixed message, nothing else), no syllabus is
\* returned, and the log gets the parser's diagnostic and the first 500
\* characters of the cleaned text: the whole text when it is no longer.
C8_LogCarriesBoundedPreview ==
    \A r \in Reqs :
        NotJson(r) =>
            /\ Raised(r) = InvalidJsonError
            /\ syllabus[r] = NoValue
            /\ Len(log[r]) = 2
            /\ log[r][1] = LogRecord("error", <<"JSON parsing failed: ">>
                                              \o Parsed(r).diagnostic)
            /\ log[r][2].level = "error"
            /\ log[r][2].msg[1] = "Cleaned text: "
            /\ Len(LoggedPreview(r)) <= 500
            /\ LoggedPreview(r) =
                  SubSeq(clean_json_string(env[r].call.text), 1, Len(LoggedPreview(r)))
            /\ Len(clean_json_string(env[r].call.text)) <= 500 =>
                  LoggedPreview(r) = clean_json_string(env[r].call.text)

\* the answer was 501 characters of no JSON, and the request has ended
C8_LongGarbage ==
    /\ pc[1] = "done"
    /\ NotJson(1)
    /\ Len(clean_json_string(env[1].call.text)) > 500

\* the answer of r is malformed: no JSON, or JSON without the required fields
Malformed(r) == GotText(r) /\ (~Parsed(r).ok \/ ~HasRequiredFields(Parsed(r).value))

\* the text service raised when r called it
Upstream(r) == env[r].api_key /\ env[r].call.kind = "raise"

\* C9: malformed output is never reported as an 'AI service error', an exception
\* of the text service is never reported as invalid JSON or missing field, and a
\* request of the one class is not answered with the HTTP status of a request of
\* the other.
C9_MalformedDistinctFromUpstream ==
    \A r \in Reqs :
        /\ Malformed(r) => ~HasPrefix(error[r].msg, <<"AI service error: ">>)
        /\ Upstream(r) => Raised(r) \notin {InvalidJsonError, MissingFieldError}
        /\ \A q \in Reqs :
              (Malformed(r) /\ Upstream(q) /\ pc[r] = "done" /\ pc[q] = "done") =>
                  response[r].status # response[q].status

----------------------------------------------------------------------------
(* Properties of the Course identifier, over several requests *)

CourseIds(store) == { c.id : c \in store.courses }

\* at most 50 characters, each a lowercase letter, a digit or an underscore
WithinIdentifier(id) ==
    /\ Len(id) <= 50
    /\ \A i \in 1..Len(id) : IsSlugChar(id[i])

\* C11: every Course identifier a request has persisted, and every identifier
\* returned in an answer, is at most 50 characters of [a-z0-9_], the collision
\* suffix included.
C11_IdentifierBounded ==
    \A r \in Reqs :
        /\ \A c \in NewRows(r).courses : WithinIdentifier(c.id)
        /\ response[r].status = 200 => WithinIdentifier(response[r].course_id)

\* request r has derived its identifier
Derived(r) ==
    /\ syllabus[r].kind = "object"
    /\ pc[r] # "derive"
    /\ error[r].at # 183

\* the slug of the title of r's syllabus
SlugOf(r) == slug(syllabus[r].v.title.v)

\* id is base with one suffix _NNN, NNN in 100..999
Suffixed(id, base) ==
    LET n == Len(base)
    IN  /\ Len(id) = n + 4
        /\ SubSeq(id, 1, n) = base
        /\ id[n + 1] = "_"
        /\ id[n + 2] \in {"1", "2", "3", "4", "5", "6", "7", "8", "9"}
        /\ \A i \in (n + 3)..(n + 4) :
              id[i] \in {"0", "1", "2", "3", "4", "5", "6", "7", "8", "9"}

\* r has ended in a failure of the text service or of the store itself
Outage(r) == error[r].type \in {"ValueError", "OperationalError"}

Succeeded(r) == pc[r] = "done" /\ response[r].status = 200

\* one existence check, one suffix: the identifier is the slug when the slug is
\* free, and the slug with one suffix _NNN when it is taken
OneSuffix(r) ==
    IF SlugOf(r) \in CourseIds(before[r])
    THEN Suffixed(course_id[r], SlugOf(r))
    ELSE course_id[r] = SlugOf(r)

C13_NeverDuplicate ==
    \A r \in Reqs :
        /\ pc[r] = "create" => course_id[r] \notin CourseIds(committed)
        /\ error[r].type # "IntegrityError"

\* the Modules of the Course id in a store, and the Lessons of these
ModulesIn(store, id) == { m \in store.modules : m.course_id = id }

LessonsIn(store, id) ==
    { l \in store.lessons : \E m \in ModulesIn(store, id) : l.module_id = m.id }

RECURSIVE LessonCount(_, _)
\* the number of lesson titles of the modules i.. of a syllabus
LessonCount(mods, i) ==
    IF i > Len(mods) THEN 0
    ELSE Len(LessonsOf(mods[i])) + LessonCount(mods, i + 1)

\* r has returned from generate_course, or was answered 200
Committed(r) == pc[r] = "returned" \/ Succeeded(r)

\* the store holds the Course of q, its Modules and its Lessons, no more
HoldsCourseOf(q) ==
    /\ Cardinality({ c \in committed.courses : c.id = course_id[q] }) = 1
    /\ Cardinality(ModulesIn(committed, course_id[q])) = Len(ModulesOf(syllabus[q]))
    /\ Cardinality(LessonsIn(committed, course_id[q])) =
          LessonCount(ModulesOf(syllabus[q]), 1)

\* C14: of the requests that run at the same time and attempt to insert the
\* same identifier, at most one commits its Course; a request that loses to a
\* committed Course (and met no outage of the store) fails with a uniqueness
\* violation at its insert; once it is answered, the store holds under that
\* identifier the rows of the request that committed and none of its own.
C14_OneCourseCommitted ==
    /\ \A id \in CourseIds(committed) :
          Cardinality({ c \in committed.courses : c.id = id }) = 1
    /\ \A r, q \in Reqs :
          (r # q /\ Derived(r) /\ Derived(q) /\ course_id[r] = course_id[q]) =>
              /\ ~(Committed(r) /\ Committed(q))
              /\ (Committed(q) /\ pc[r] = "done" /\ error[r].type # "OperationalError") =>
                    /\ error[r].type = "IntegrityError"
                    /\ error[r].at = 203
                    /\ error[r].msg[1] = "(IntegrityError) UNIQUE constraint failed: course.id"
              /\ (Committed(q) /\ pc[r] = "done") =>
                    /\ session[r] = EmptySession
                    /\ HoldsCourseOf(q)
    /\ \A r \in Reqs :
          (Derived(r) /\ pc[r] = "done" /\ ~Succeeded(r)) =>
              \/ ModulesIn(committed, course_id[r]) = ModulesIn(before[r], course_id[r])
              \/ \E q \in Reqs \ {r} :
                    Derived(q) /\ Committed(q) /\ course_id[q] = course_id[r]
                    /\ HoldsCourseOf(q)

\* both requests found the slug of the long title free; the first has its
\* Course committed, the second was answered after the uniqueness violation
C14_LostTheRace ==
    /\ before[1] = before[2]
    /\ course_id[1] = course_id[2]
    /\ Len(course_id[1]) = 50
    /\ Succeeded(1)
    /\ pc[2] = "done"
    /\ error[2].type = "IntegrityError"

----------------------------------------------------------------------------
(* Properties of the rows and of the answer of one request *)

\* C15: after a successful generation for a syllabus of N modules, module i
\* with M_i lesson titles, the store has gained exactly one Course, N Modules of
\* that Course with order_index 1..N in syllabus order, and for module i exactly
\* M_i Lessons of that Module with order_index 1..M_i in syllabus order;
\* order_index is unique within each parent.
C15_RowsFollowSyllabus ==
    \A r \in Reqs :
        Succeeded(r) =>
            LET new == NewRows(r)
                mods == ModulesOf(syllabus[r])
            IN  /\ Cardinality(new.courses) = 1
                /\ \A c \in new.courses : c.id = course_id[r]
                /\ Cardinality(new.modules) = Len(mods)
                /\ Cardinality(new.lessons) = LessonCount(mods, 1)
                /\ \A i \in 1..Len(mods) :
                      \E m \in new.modules :
                          /\ m.order_index = i
                          /\ m.course_id = course_id[r]
                          /\ m.title = mods[i].v.title.v
                          /\ Cardinality({ l \in new.lessons : l.module_id = m.id }) =
                                Len(LessonsOf(mods[i]))
                          /\ \A j \in 1..Len(LessonsOf(mods[i])) :
                                \E l \in new.lessons :
                                    /\ l.module_id = m.id
                                    /\ l.order_index = j
                                    /\ l.title = LessonsOf(mods[i])[j].v
                /\ \A m1, m2 \in new.modules :
                      m1.order_index < m2.order_index => m1.id < m2.id
                /\ \A l1, l2 \in new.lessons :
                      (l1.module_id = l2.module_id /\ l1.order_index < l2.order_index) =>
                          l1.id < l2.id

\* a syllabus of two modules, two lessons and one, generated and stored
C15_TwoModulesThreeLessons ==
    /\ Succeeded(1)
    /\ Cardinality(NewRows(1).modules) = 2
    /\ Cardinality(NewRows(1).lessons) = 3

\* C16: after a successful generation the Course thumbnail is the URL built from
\* the video id resolved for the first lesson of the first module, whatever the
\* later lookups return; when the first module has no lesson it is the
\* placeholder set at Course creation.
C16_ThumbnailOfFirstLesson ==
    \A r \in Reqs :
        Succeeded(r) =>
            \A c \in NewRows(r).courses :
                c.thumbnail_url =
                    IF HasFirstLesson(r)
                    THEN <<"https://img.youtube.com/vi/", searches[r][1].returned.id,
                           "/mqdefault.jpg">>
                    ELSE <<"https://img.youtube.com/vi/", "placeholder", "/mqdefault.jpg">>

\* stored after three lookups that resolved three different videos
C16_ThreeVideos ==
    /\ Succeeded(1)
    /\ Len(searches[1]) = 3
    /\ searches[1][1].returned.id = "vid_q1"
    /\ searches[1][2].returned.id = "vid_q2"
    /\ searches[1][3].returned.id = "vid_q3"

\* the body is JSON without a member 'topic'
HasNoTopic(body) ==
    /\ body.kind = "json"
    /\ body.value.kind # "object" \/ "topic" \notin DOMAIN body.value.v

\* the body has a topic that is blank, or longer than 100 characters trimmed
HasBadTopic(body) ==
    /\ body.kind = "json"
    /\ body.value.kind = "object"
    /\ "topic" \in DOMAIN body.value.v
    /\ \/ \A i \in 1..Len(body.value.v.topic.v) :
             body.value.v.topic.v[i] \in {" ", "\n", "\t"}
       \/ Len(Strip(body.value.v.topic.v)) > 100

\* generate_course was called for r
Invoked(r) ==
    \/ pc[r] \in {"generate", "derive", "create", "module", "lesson", "returned"}
    \/ error[r].at \in {179, 183, 203, 209, 213, 234}
    \/ response[r].status = 200

\* C17: a body without 'topic', with a topic that is empty after trimming or
\* with a trimmed topic of more than 100 characters is answered 400, and
\* generate_course is not called and the store not changed; the topic that
\* reaches the generator is not empty and at most 100 characters; a successful
\* generation is answered with the identifier generate_course returned.
C17_BadBodyAnswered400 ==
    \A r \in Reqs :
        pc[r] # "idle" =>
            /\ (HasNoTopic(data[r]) \/ HasBadTopic(data[r])) =>
                  /\ ~Invoked(r)
                  /\ calls[r] = 0
                  /\ committed = before[r]
                  /\ pc[r] = "done" => response[r].status = 400
            /\ Invoked(r) => Len(topic[r]) \in 1..100
            /\ response[r].status = 200 =>
                  /\ response[r].course_id = course_id[r]
                  /\ course_id[r] \in CourseIds(committed)

\* the error text holds one of the patterns
MatchesBusy(msg) ==
    \E i \in 1..Len(msg) : msg[i] \in {"429", "rate", "quota", "404", "not found"}

\* C18: a request that failed with an error whose text holds '429', 'rate',
\* 'quota', '404' or 'not found', an error raised by the text service in
\* particular, is answered 503 with the 'try again' message.
C18_BusyAnswered503 ==
    \A r \in Reqs :
        (pc[r] = "done" /\ error[r].type # "none" /\ MatchesBusy(error[r].msg)) =>
            /\ response[r].status = 503
            /\ response[r].error =
                  <<"AI is busy or cooling down. Please wait 30 seconds and try again.">>

\* r failed at a flush or at the commit
PersistenceError(r) ==
    /\ error[r].type \in {"IntegrityError", "OperationalError"}
    /\ error[r].at \in {203, 213, 234}

\* C19: when generate_course fails at a flush or at the commit, the store keeps
\* the rows it had; the answer comes after the rollback, with nothing left in
\* the session, and is 503 or 500: 500 with the error text when the text holds
\* none of the rate-limit, quota and not-found patterns.
C19_RollbackThenError ==
    \A r \in Reqs :
        PersistenceError(r) =>
            /\ committed = before[r]
            /\ pc[r] \in {"raised", "done"}
            /\ pc[r] = "done" =>
                  /\ session[r] = EmptySession
                  /\ response[r].status \in {500, 503}
                  /\ ~MatchesBusy(error[r].msg) =>
                        /\ response[r].status = 500
                        /\ response[r].error = error[r].msg

\* the commit failed after three lessons were added, and 500 was answered
C19_CommitFailed ==
    /\ pc[1] = "done"
    /\ error[1].at = 234
    /\ Len(searches[1]) = 3
    /\ response[1].status = 500
    /\ before[1] # EmptyStore

\* r was handed to the generator and found no credential
KeyAbsent(r) ==
    /\ topic[r] # <<>>
    /\ pc[r] # "generate"
    /\ ~env[r].api_key

\* C20: without GEMINI_API_KEY a request fails where the client is made: the
\* text service is not called, no video is searched, the store is neither read
\* nor written, and the request ends with this error without another attempt.
C20_NoKeyFailsFast ==
    \A r \in Reqs :
        KeyAbsent(r) =>
            /\ Raised(r) = ValueError(<<"GEMINI_API_KEY environment variable not set">>)
            /\ error[r].at = 179
            /\ calls[r] = 0
            /\ searches[r] = <<>>
            /\ course_id[r] = <<>>
            /\ session[r] = EmptySession
            /\ committed = before[r]
            /\ pc[r] \in {"raised", "done"}
            /\ pc[r] = "done" => response[r].status = 400

\* the request without a credential has been answered
C20_NoKeyAnswered ==
    /\ KeyAbsent(1)
    /\ pc[1] = "done"
    /\ response[1].error = <<"GEMINI_API_KEY environment variable not set">>

\* C21: within one request the text-generation service is called at most once;
\* when it raised, or returned a malformed response, it was called once and the
\* request is on its way to an error answer: no second call follows.
C21_OneCallNoRetry ==
    \A r \in Reqs :
        /\ calls[r] <= 1
        /\ (Upstream(r) \/ Malformed(r)) =>
              /\ calls[r] = 1
              /\ error[r].at = 179
              /\ syllabus[r] = NoValue
              /\ pc[r] \in {"raised", "done"}
              /\ pc[r] = "done" => response[r].status \in {400, 500, 503}

\* the text service refused the connection, and the request was answered
C21_RaisedOnce ==
    /\ pc[1] = "done"
    /\ Upstream(1)
    /\ env[1].call.exc.type = "ConnectError"
    /\ calls[1] = 1

\* C22: the Course a successful request has stored has is_generated true, the
\* title of the syllabus, its description or else 'Master {topic} from scratch',
\* its level or else 'Beginner'; the identifier in the answer is that Course's.
C22_CourseFields ==
    \A r \in Reqs :
        Succeeded(r) =>
            /\ NewRows(r).courses # {}
            /\ \A c \in NewRows(r).courses :
                  /\ c.is_generated = TRUE
                  /\ c.title = syllabus[r].v.title.v
                  /\ c.description =
                        IF "description" \in DOMAIN syllabus[r].v
                        THEN syllabus[r].v.description.v
                        ELSE <<"Master ">> \o topic[r] \o <<" from scratch">>
                  /\ c.level =
                        IF "level" \in DOMAIN syllabus[r].v
                        THEN syllabus[r].v.level.v
                        ELSE <<"Beginner">>
                  /\ response[r].course_id = c.id

\* a Course stored from a syllabus without description and level
C22_DefaultsUsed ==
    /\ Succeeded(1)
    /\ DOMAIN syllabus[1].v = {"title", "modules"}
    /\ \E c \in NewRows(1).courses : c.description = <<"Master ", "G", "o", " from scratch">>

\* C23: the searches of a request are one per lesson title, in syllabus order,
\* each for the title with the qualifier and for one result, each made when the
\* Module of its lesson is in the session; the Lesson of a search carries the id
\* and the duration that search returned; before the commit every lesson title
\* has had its search.
C23_OneSearchPerLesson ==
    \A r \in Reqs :
        IF syllabus[r].kind # "object"
        THEN searches[r] = <<>>
        ELSE LET mods == ModulesOf(syllabus[r])
                 pairs == LessonPairs(mods, 1)
                 titleOf(k) == LessonsOf(mods[pairs[k][1]])[pairs[k][2]].v
             IN  /\ Len(searches[r]) <= Len(pairs)
                 /\ \A k \in 1..Len(searches[r]) :
                       /\ searches[r][k].module_idx + 1 = pairs[k][1]
                       /\ searches[r][k].lesson_idx + 1 = pairs[k][2]
                       /\ searches[r][k].request =
                             [q |-> titleOf(k) \o <<" tutorial">>, limit |-> 1]
                 /\ Len(session[r].lessons) = Len(searches[r]) =>
                       \A k \in 1..Len(searches[r]) :
                           /\ pairs[k][1] <= Len(session[r].modules)
                           /\ session[r].lessons[k].module_id =
                                 session[r].modules[pairs[k][1]].id
                           /\ session[r].lessons[k].title = titleOf(k)
                           /\ session[r].lessons[k].video_url = searches[r][k].returned.id
                           /\ session[r].lessons[k].duration =
                                 searches[r][k].returned.duration
                 /\ (AtCommit(r) \/ Committed(r)) => Len(searches[r]) = Len(pairs)
                 /\ Succeeded(r) =>
                       \A k \in 1..Len(pairs) :
                           \E l \in NewRows(r).lessons :
                               /\ l.title = titleOf(k)
                               /\ l.order_index = pairs[k][2]
                               /\ l.video_url = searches[r][k].returned.id
                               /\ l.duration = searches[r][k].returned.duration

\* the second of three searches is done, the third is to come
C23_BetweenSearches ==
    /\ pc[1] = "lesson"
    /\ Len(searches[1]) = 2
    /\ Len(session[1].lessons) = 2
    /\ searches[1][1].returned.id # searches[1][2].returned.id

\* the number of modules of a JSON array
ModuleCount(doc) == Len(doc.v.modules.v)

\* C24: a parsed syllabus with title and a list of modules is returned by
\* generate_syllabus whatever the length of the list; a length other than four
\* is logged as a warning and nothing else; a request that succeeds has stored
\* one Module for each module given.
C24_ModuleCountOnlyWarns ==
    \A r \in Reqs :
        (/\ GotText(r)
         /\ Parsed(r).ok
         /\ HasRequiredFields(Parsed(r).value)
         /\ Parsed(r).value.v.modules.kind = "array") =>
            /\ syllabus[r] = Parsed(r).value
            /\ error[r].at # 179
            /\ log[r] = IF ModuleCount(syllabus[r]) = 4 THEN <<>>
                        ELSE <<[level |-> "warning",
                                msg |-> <<"Expected exactly 4 modules, got ",
                                          ToString(ModuleCount(syllabus[r]))>>]>>
            /\ Succeeded(r) =>
                  /\ Cardinality(NewRows(r).modules) = ModuleCount(syllabus[r])
                  /\ \A i \in 1..ModuleCount(syllabus[r]) :
                        \E m \in NewRows(r).modules :
                            /\ m.order_index = i
                            /\ m.title = syllabus[r].v.modules.v[i].v.title.v

\* a syllabus of five modules, stored
C24_FiveModules ==
    /\ Succeeded(1)
    /\ ModuleCount(syllabus[1]) = 5
    /\ Cardinality(NewRows(1).modules) = 5

\* C25: no step of a generation request, of one that fails as of one that
\* succeeds, removes or changes a committed Course, Module or Lesson row, or
\* touches the tables User and UserProgress: the store only gains rows.
C25_OnlyInserts ==
    [][/\ committed.courses \subseteq committed'.courses
       /\ committed.modules \subseteq committed'.modules
       /\ committed.lessons \subseteq committed'.lessons
       /\ users' = users
       /\ user_progress' = user_progress]_vars

\* two requests have committed next to a course that was there before them
C25_AddedToSeeded ==
    /\ \A r \in Reqs : Succeeded(r) /\ before[r].courses # {}
    /\ before[1].courses \subseteq committed.courses
    /\ Cardinality(committed.courses) = 3
    /\ user_progress = SomeProgress

\* the pipeline at rest, for the specifications of the pure functions
PipelineOff ==
    /\ StoreInit({EmptyStore})
    /\ RequestsIdle
    /\ AccountsInit({{}})
    /\ OthersIdle

----------------------------------------------------------------------------
(* The sanitizer on its own: every text made of at most MaxChunks chunks,  *)
(* and every fenced or unfenced wrapping of an inner text.                 *)

MaxChunks == 5

MaxWs == 1

CleanChunks ==
    { Fence, <<"j", "s", "o", "n">>, <<"J", "S", "o", "N">>, <<" ">>, <<"\n">>, <<"x">> }

RECURSIVE ChunkTexts(_)
ChunkTexts(k) ==
    IF k = 0 THEN { <<>> }
    ELSE LET shorter == ChunkTexts(k - 1)
         IN  shorter \cup { c \o t : c \in CleanChunks, t \in shorter }

\* inner texts: trimmed, without a fence marker
InnerTexts == { <<"x">>, <<"{", "x", " ", "x", "}">> }

\* runs of at most MaxWs whitespace characters
WsRuns == UNION { [1..k -> {" ", "\n"}] : k \in 0..MaxWs }

\* t wrapped in a fence opened by the marker open
Fenced(open, t) ==
    { Concat(<<w1, open, w2, t, w3, Fence, w4>>) : w1 \in WsRuns, w2 \in WsRuns,
                                                   w3 \in WsRuns, w4 \in WsRuns }

Unfenced(t) == { Concat(<<w1, t, w4>>) : w1 \in WsRuns, w4 \in WsRuns }

\* the three wrappings of t
Wrappings(t) == Fenced(FenceJson, t) \cup Fenced(Fence, t) \cup Unfenced(t)

CleanInputs == ChunkTexts(MaxChunks) \cup UNION { Wrappings(t) : t \in InnerTexts }

InitClean ==
    /\ arg \in CleanInputs
    /\ out1 = <<>>
    /\ out2 = <<>>
    /\ fstage = "input"
    /\ PipelineOff

CleanOnce ==
    /\ fstage = "input"
    /\ out1' = clean_json_string(arg)
    /\ fstage' = "once"
    /\ UNCHANGED <<arg, out2, dbvars, rvars, avars>>

CleanTwice ==
    /\ fstage = "once"
    /\ out2' = clean_json_string(out1)
    /\ fstage' = "twice"
    /\ UNCHANGED <<arg, out1, dbvars, rvars, avars>>

NextClean == CleanOnce \/ CleanTwice

SpecClean == InitClean /\ [][NextClean]_vars

\* C5: clean_json_string is idempotent: cleaning a cleaned text changes nothing.
C5_CleanIdempotent == fstage = "twice" => out2 = out1

\* C6: every wrapping of an inner text t (a json fence, a plain fence, no fence,
\* with whitespace around the fences and around t) is cleaned to t.
C6_WrappingsCleanToInner ==
    fstage # "input" => \A t \in InnerTexts : arg \in Wrappings(t) => out1 = t

----------------------------------------------------------------------------
(* The identifier on its own: every short title, and titles around the limit *)

MaxTitleLen == 3

MaxPad == 2

TitleChars == { "G", "o", "7", " ", "-", "_", "!", "U+00E9" }

\* titles around the length limit: a short head and a run of one character
LongTitles ==
    { h \o Rep(c, n) : h \in { <<>>, <<"G", "o", " ">>, <<"!">> },
                       c \in { "a", "-", "!" },
                       n \in (SlugLimit - MaxPad)..(SlugLimit + MaxPad) }

SlugInputs ==
    UNION { [1..k -> TitleChars] : k \in 0..MaxTitleLen } \cup LongTitles

InitSlug ==
    /\ arg \in SlugInputs
    /\ out1 = <<>>
    /\ out2 = <<>>
    /\ fstage = "input"
    /\ PipelineOff

DeriveSlug ==
    /\ fstage = "input"
    /\ out1' = slug(arg)
    /\ fstage' = "once"
    /\ UNCHANGED <<arg, out2, dbvars, rvars, avars>>

NextSlug == DeriveSlug

SpecSlug == InitSlug /\ [][NextSlug]_vars

\* C10: the identifier derived from any title matches ^[a-z0-9_]{1,50}$, so it
\* is never empty.
C10_SlugMatchesPattern ==
    fstage = "once" =>
        /\ Len(out1) \in 1..SlugLimit
        /\ \A i \in 1..Len(out1) : IsSlugChar(out1[i])

----------------------------------------------------------------------------
(* GET /api/syllabus: get_syllabus.  The world of one call: whether the     *)
(* module-level client was built, and what the text service does.           *)

\* MOCK_SYLLABUS
MockTopic(name, description) ==
    JObj([name |-> JStr(<<name>>), description |-> JStr(<<description>>)])

MockModule(title, topics) == JObj([title |-> JStr(<<title>>), topics |-> JArr(topics)])

MOCK_SYLLABUS ==
    JObj([title |-> JStr(<<"Python Mastery (Mock)">>),
          modules |-> JArr(<<
              MockModule("Basics", <<
                  MockTopic("Variables & Data Types",
                            "Understanding numbers, strings, and booleans."),
                  MockTopic("Control Flow", "If statements, loops, and logic."),
                  MockTopic("Functions", "Defining and calling reusable code blocks.")>>),
              MockModule("Intermediate", <<
                  MockTopic("Object-Oriented Programming",
                            "Classes, objects, and inheritance."),
                  MockTopic("File Handling", "Reading and writing files."),
                  MockTopic("Error Handling", "Try/Except blocks and exceptions.")>>),
              MockModule("Real-world Libraries", <<
                  MockTopic("Pandas", "Data manipulation and analysis."),
                  MockTopic("Flask", "Building web applications."),
                  MockTopic("Requests", "Making HTTP requests.")>>)>>)])

\* text.replace(old, ''): every occurrence of old, from the left, is removed
RECURSIVE Remove(_, _)
Remove(text, old) ==
    LET found == { i \in 1..(Len(text) - Len(old) + 1) :
                       SubSeq(text, i, i + Len(old) - 1) = old }
    IN  IF found = {} THEN text
        ELSE LET first == CHOOSE i \in found : \A j \in found : i <= j
             IN  SubSeq(text, 1, first - 1)
                     \o Remove(SubSeq(text, first + Len(old), Len(text)), old)

\* jsonify(value): status 200
Jsonify(value) == [status |-> 200, body |-> value]

\* an except clause that answers with the error
SyllabusFallback_Error == [status |-> 500, body |-> JNull]

\* lines 274-277: the answer to any exception
SyllabusFallback == Jsonify(MOCK_SYLLABUS)

\* line 270: the fence markers are removed wherever they are, then the text is trimmed
CleanText(text) == Strip(Remove(Remove(text, FenceJson), Fence))

\* lines 259-277
get_syllabus(world) ==
    IF ~world.client
    THEN SyllabusFallback
    ELSE IF world.call.kind # "text"
    THEN SyllabusFallback
    ELSE LET syllabus_data == json_loads(CleanText(world.call.text))
         IN  IF syllabus_data.ok THEN Jsonify(syllabus_data.value) ELSE SyllabusFallback

\* a document in a fence with an upper-case tag, and a fence inside a document
UpperFenced(t) == Concat(<<Fence, <<"J", "S", "O", "N", "\n">>, t, <<"\n">>, Fence>>)

FenceInside == <<"[">> \o Fence \o <<"]">>

SyllabusTexts == Responses \cup { UpperFenced(t) : t \in OtherDocTexts } \cup { FenceInside }

NoClient == [client |-> FALSE, call |-> [kind |-> "none"]]

WithClient(call) == [client |-> TRUE, call |-> call]

SyllabusWorlds ==
    { NoClient, WithClient([kind |-> "no_text"]) }
    \cup { WithClient([kind |-> "raise", exc |-> e]) : e \in ServiceExceptions }
    \cup { WithClient([kind |-> "text", text |-> t]) : t \in SyllabusTexts }

\* the store of the route: one course and one row of progress
SyllabusStore == SeededCourse(<<"p", "y", "t", "h", "o", "n">>, 1, 1)

InitSyllabus ==
    /\ arg \in SyllabusWorlds
    /\ out1 = <<>>
    /\ out2 = <<>>
    /\ fstage = "input"
    /\ StoreInit({SyllabusStore})
    /\ RequestsIdle
    /\ AccountsInit({SomeProgress})
    /\ OthersIdle

GetSyllabus ==
    /\ fstage = "input"
    /\ out1' = get_syllabus(arg)
    /\ fstage' = "once"
    /\ UNCHANGED <<arg, out2, dbvars, rvars, avars>>

NextSyllabus == GetSyllabus

SpecSyllabus == InitSyllabus /\ [][NextSyllabus]_vars

\* the call cannot give a text: no client, an exception, no text
NoTextGiven(world) == ~world.client \/ world.call.kind # "text"

\* C26: GET /api/syllabus always answers 200; with MOCK_SYLLABUS when there is
\* no client, when the call raises or gives no text, and when the text is not
\* JSON; with the value of the document when the text is a JSON document, bare
\* or in a fence; the store is as it was.
C26_SyllabusNeverFails ==
    fstage = "once" =>
        /\ out1.status = 200
        /\ NoTextGiven(arg) => out1.body = MOCK_SYLLABUS
        /\ ~NoTextGiven(arg) =>
              /\ arg.call.text \in Garbage \cup { UpperFenced(t) : t \in OtherDocTexts }
                    => out1.body = MOCK_SYLLABUS
              /\ \A i \in 1..Len(JsonDocs) :
                    \A w \in {"plain", "json fence", "fence", "json fence, blank line"} :
                        arg.call.text = Wrapped(w, JsonDocs[i][1]) => out1.body = JsonDocs[i][2]
        /\ committed = SyllabusStore
        /\ user_progress = SomeProgress
        /\ \A r \in Reqs : session[r] = EmptySession

\* the text service raised, and the mock syllabus was served
C26_MockServed ==
    /\ fstage = "once"
    /\ arg.client
    /\ arg.call.kind = "raise"
    /\ out1 = Jsonify(MOCK_SYLLABUS)

----------------------------------------------------------------------------
(* GET /api/lessons/<id>: get_lesson_detail, and a client that follows      *)
(* next_lesson_id from the first lesson of a course.                        *)

\* next_lesson_id = None
NullId == 0

NotFound(msg) == [status |-> 404, error |-> msg]

\* .order_by(order_index.asc()).first() on rows that are not empty
First(rows) == CHOOSE x \in rows : \A y \in rows : x.order_index <= y.order_index

\* lines 342-384
get_lesson_detail(store, lesson_id) ==
    LET lessons == { l \in store.lessons : l.id = lesson_id }
    IN  IF lessons = {} THEN NotFound(<<"Lesson not found">>)
        ELSE
        LET lesson == CHOOSE l \in lessons : TRUE
            modules == { m \in store.modules : m.id = lesson.module_id }
        IN  IF modules = {} THEN NotFound(<<"Module not found">>)
            ELSE
            LET module == CHOOSE m \in modules : TRUE
                next_in_module == { l \in store.lessons :
                                      /\ l.module_id = lesson.module_id
                                      /\ l.order_index > lesson.order_index }
                next_modules == { m \in store.modules :
                                    /\ m.course_id = module.course_id
                                    /\ m.order_index > module.order_index }
                first_lessons == { l \in store.lessons :
                                     l.module_id = First(next_modules).id }
                next_lesson_id ==
                    IF next_in_module # {} THEN First(next_in_module).id
                    ELSE IF next_modules = {} THEN NullId
                    ELSE IF first_lessons # {} THEN First(first_lessons).id
                    ELSE NullId
            IN  [status |-> 200, id |-> lesson.id, title |-> lesson.title,
                 video_url |-> lesson.video_url, duration |-> lesson.duration,
                 module_title |-> module.title, course_id |-> module.course_id,
                 next_lesson_id |-> next_lesson_id]

\* the courses the client walks: at most MaxNavModules modules of at most
\* MaxNavLessons lessons each, the first module with a lesson
MaxNavModules == 3

MaxNavLessons == 2

NavShapes ==
    { shape \in UNION { [1..k -> 0..MaxNavLessons] : k \in 1..MaxNavModules } :
          shape[1] >= 1 }

RECURSIVE LessonsBefore(_, _)
LessonsBefore(shape, i) == IF i <= 1 THEN 0 ELSE shape[i - 1] + LessonsBefore(shape, i - 1)

NavId == <<"n", "a", "v">>

\* the rows generate_course stores for a syllabus of this shape, when the
\* store hands out module_base + 1 and lesson_base + 1 next
NavCourse(shape, module_base, lesson_base) ==
    [courses |-> { [id |-> NavId, title |-> <<"Nav">>, description |-> <<"Master Nav from scratch">>,
                    thumbnail_url |-> ThumbnailUrl("navvid"), level |-> <<"Beginner">>,
                    is_generated |-> TRUE] },
     modules |-> { [id |-> module_base + i, course_id |-> NavId,
                    title |-> <<"M", ToString(i)>>, order_index |-> i] : i \in DOMAIN shape },
     lessons |-> UNION { { [id |-> lesson_base + LessonsBefore(shape, i) + j,
                            module_id |-> module_base + i,
                            title |-> <<"L", ToString(i), ToString(j)>>,
                            video_url |-> "navvid",
                            duration |-> DefaultDuration,
                            order_index |-> j] : j \in 1..shape[i] } : i \in DOMAIN shape }]

\* the course alone, and the course stored after a seeded one
NavStores ==
    { NavCourse(shape, 0, 0) : shape \in NavShapes }
    \cup { StoreUnion(SeededCourse(<<"g", "o", "_", "1">>, 1, 1), NavCourse(shape, 1, 1)) :
               shape \in NavShapes }

\* the first lesson of the first module of the walked course
FirstLesson(store) ==
    First({ l \in store.lessons :
              l.module_id = First({ m \in store.modules : m.course_id = NavId }).id }).id

InitNav ==
    /\ StoreInit(NavStores)
    /\ arg = FirstLesson(committed)
    /\ out1 = <<>>
    /\ out2 = <<>>
    /\ fstage = "input"
    /\ RequestsIdle
    /\ AccountsInit({{}})
    /\ OthersIdle

\* the client requests the lesson arg and takes next_lesson_id as the next one
FollowNext ==
    /\ fstage \in {"input", "walk"}
    /\ LET detail == get_lesson_detail(committed, arg)
       IN  /\ out1' = Append(out1, detail.id)
           /\ out2' = detail
           /\ arg' = detail.next_lesson_id
           /\ fstage' = IF detail.next_lesson_id = NullId THEN "end" ELSE "walk"
    /\ UNCHANGED <<dbvars, rvars, avars>>

NextNav == FollowNext

SpecNav == InitNav /\ [][NextNav]_vars

\* the lessons of the walked course by module order_index, then order_index
RECURSIVE InOrder(_, _, _)
InOrder(store, i, j) ==
    LET modules == { m \in store.modules : m.course_id = NavId /\ m.order_index = i }
    IN  IF modules = {} THEN <<>>
        ELSE LET at == { l \in store.lessons :
                            /\ l.module_id = (CHOOSE m \in modules : TRUE).id
                            /\ l.order_index = j }
             IN  IF at = {} THEN InOrder(store, i + 1, 1)
                 ELSE <<(CHOOSE l \in at : TRUE).id>> \o InOrder(store, i, j + 1)

\* C27: the walk from the first lesson of the first module visits the lessons
\* of the course in the order of (module order_index, lesson order_index), and
\* ends, with next_lesson_id null, only when every lesson was visited.
C27_WalkVisitsEveryLesson ==
    LET expected == InOrder(committed, 1, 1)
    IN  /\ Len(out1) <= Len(expected)
        /\ out1 = SubSeq(expected, 1, Len(out1))
        /\ fstage = "end" => out1 = expected

----------------------------------------------------------------------------
(* POST /api/progress/update, GET /api/progress and                         *)
(* GET /api/courses/<course_id>/progress.  An update is two steps, the      *)
(* query of line 209 and the write with its commit: requests of different   *)
(* workers interleave between them.                                         *)

\* the bodies of the updates: request.json, a dict
Updates ==
    { [topic_id |-> t, is_completed |-> TRUE, timestamp |-> <<30>>] : t \in Topics }
    \cup { [topic_id |-> t, is_completed |-> FALSE] : t \in Topics }
    \cup { [topic_id |-> t] : t \in Topics }
    \cup { [is_completed |-> TRUE], [topic_id |-> <<>>, is_completed |-> TRUE] }

\* filter_by(user_id=..., topic_id=...)
Matching(user_id, topic_id) ==
    { p \in user_progress : p.user_id = user_id /\ p.topic_id = topic_id }

\* lines 201-209: the body is read; without a topic the answer is 400; else
\* the row is looked up, and first() hands back any of the rows that match
QueryProgress(u) ==
    /\ upd[u].pc = "idle"
    /\ \E user \in UserIds, d \in Updates :
        LET topic_id == Get(d, "topic_id", <<>>)
        IN  IF topic_id = <<>>
            THEN upd' = [upd EXCEPT ![u] =
                            [pc |-> "done", user |-> user, data |-> d, progress |-> 0,
                             response |-> [status |-> 400,
                                           text |-> <<"Topic ID required">>]]]
            ELSE \E found \in IF Matching(user, topic_id) = {} THEN {0}
                              ELSE { p.id : p \in Matching(user, topic_id) } :
                     upd' = [upd EXCEPT ![u] =
                                [pc |-> "queried", user |-> user, data |-> d,
                                 progress |-> found, response |-> NoUpdate.response]]
    /\ UNCHANGED <<fvars, dbvars, rvars, users, user_progress, latest, read, seed>>

\* lines 211-225: the row that was found is changed, or a row is added; commit
WriteProgress(u) ==
    /\ upd[u].pc = "queried"
    /\ LET d == upd[u].data
           is_completed == Get(d, "is_completed", FALSE)
           timestamp == Get(d, "timestamp", <<>>)
       IN  /\ user_progress' =
                 IF upd[u].progress # 0
                 THEN { IF p.id = upd[u].progress
                        THEN [p EXCEPT !.is_completed = is_completed,
                                       !.timestamp = timestamp]
                        ELSE p : p \in user_progress }
                 ELSE user_progress \cup
                          { ProgressRow(MaxId(user_progress) + 1, upd[u].user, d.topic_id,
                                        is_completed, timestamp) }
           /\ latest' = [latest EXCEPT ![<<upd[u].user, d.topic_id>>] = <<is_completed>>]
    /\ upd' = [upd EXCEPT ![u].pc = "done",
                          ![u].response = [status |-> 200, text |-> <<"Progress updated">>]]
    /\ UNCHANGED <<fvars, dbvars, rvars, users, read, seed>>

\* the topics of the rows of a user that are completed
CompletedTopics(user) ==
    { p.topic_id : p \in { q \in user_progress : q.user_id = user /\ q.is_completed } }

\* lines 229-233
GetProgress ==
    /\ \E user \in UserIds :
           read' = [kind |-> "progress", user |-> user, course_id |-> <<>>,
                    status |-> 200, body |-> CompletedTopics(user), asof |-> latest]
    /\ UNCHANGED <<fvars, dbvars, rvars, users, user_progress, upd, latest, seed>>

\* lines 323-337: the course_id of the route is not used
GetCourseProgress ==
    /\ \E user \in UserIds, c \in CourseIds(committed) :
           read' = [kind |-> "course", user |-> user, course_id |-> c,
                    status |-> 200, body |-> CompletedTopics(user), asof |-> latest]
    /\ UNCHANGED <<fvars, dbvars, rvars, users, user_progress, upd, latest, seed>>

\* the store of the progress routes: two courses, one lesson each
ProgressStore ==
    StoreUnion(SeededCourse(<<"p", "y", "t", "h", "o", "n">>, 1, 1),
               SeededCourse(<<"g", "o", "_", "1">>, 2, 2))

InitProgress ==
    /\ HarnessOff
    /\ StoreInit({ProgressStore})
    /\ RequestsIdle
    /\ AccountsInit({{}, SomeProgress})
    /\ OthersIdle

NextProgress ==
    \/ \E u \in Upds : QueryProgress(u) \/ WriteProgress(u)
    \/ GetProgress
    \/ GetCourseProgress

SpecProgress == InitProgress /\ [][NextProgress]_vars

\* C28: there is at most one UserProgress row for a user and a topic, and an
\* update without a topic is answered 400.
C28_OneRowPerUserAndTopic ==
    /\ \A p, q \in user_progress :
           p.user_id = q.user_id /\ p.topic_id = q.topic_id => p = q
    /\ \A u \in Upds :
           upd[u].pc = "done" /\ Get(upd[u].data, "topic_id", <<>>) = <<>>
               => upd[u].response.status = 400

\* the titles of the lessons of a course
LessonTitles(store, id) == { l.title : l \in LessonsIn(store, id) }

\* C29: GET /api/progress answers with the topics whose last update by the user
\* was completed; GET /api/courses/<course_id>/progress answers with those of
\* them that are lessons of the course.
C29_ProgressMatchesUpdates ==
    LET completed(user) == { t \in Topics : read.asof[<<user, t>>] = <<TRUE>> }
    IN  /\ read.kind = "progress" => read.body = completed(read.user)
        /\ read.kind = "course" =>
              read.body = completed(read.user) \cap LessonTitles(committed, read.course_id)

----------------------------------------------------------------------------
(* GET /api/seed_db: seed_database and _seed_python_course, next to a       *)
(* generation request.                                                      *)

SeedModules == << <<"Basics">>, <<"Data Structures">>, <<"OOP">> >>

\* per module: title, video_id, duration of its lessons
SeedLessons ==
    << << <<<<"Variables & Data Types">>, "_uQrJ0TkZlc", "10:00">>,
          <<<<"Control Flow (If/Else)">>, "Zp5MuPOtsSY", "12:30">>,
          <<<<"Loops (For/While)">>, "6iF8Xb7Z3wQ", "15:00">> >>,
       << <<<<"Lists & Tuples">>, "ohCDkTuyIPg", "14:20">>,
          <<<<"Dictionaries & Sets">>, "daefaLgNkw0", "11:45">> >>,
       << <<<<"Classes & Objects">>, "ZDa-Z5JzLYM", "18:00">>,
          <<<<"Inheritance & Polymorphism">>, "JeznW_7DlB0", "16:10">> >> >>

RECURSIVE SeedLessonsBefore(_)
SeedLessonsBefore(i) ==
    IF i <= 1 THEN 0 ELSE Len(SeedLessons[i - 1]) + SeedLessonsBefore(i - 1)

\* the rows of _seed_python_course, when the store hands out module_first and
\* lesson_first next
PythonCourse(module_first, lesson_first) ==
    [courses |-> { [id |-> PythonId, title |-> PythonMastery,
                    description |-> <<"Master Python from scratch to advanced concepts.">>,
                    thumbnail_url |->
                        <<"https://upload.wikimedia.org/wikipedia/commons/c/c3/Python-logo-notext.svg">>,
                    level |-> <<"Beginner">>, is_generated |-> FALSE] },
     modules |-> { [id |-> module_first + i - 1, course_id |-> PythonId,
                    title |-> SeedModules[i], order_index |-> i] : i \in DOMAIN SeedModules },
     lessons |-> UNION { { [id |-> lesson_first + SeedLessonsBefore(i) + j - 1,
                            module_id |-> module_first + i - 1,
                            title |-> SeedLessons[i][j][1],
                            video_url |-> SeedLessons[i][j][2],
                            duration |-> SeedLessons[i][j][3],
                            order_index |-> j] : j \in DOMAIN SeedLessons[i] } :
                        i \in DOMAIN SeedLessons }]

SeedAnswer(status, text) == [status |-> status, text |-> text]

\* lines 618-623: the course is looked up by its title
SeedCheck(k) ==
    /\ seed[k].pc = "idle"
    /\ seed' = [seed EXCEPT ![k] =
                   IF \E c \in committed.courses : c.title = PythonMastery
                   THEN [pc |-> "done",
                         response |-> SeedAnswer(200,
                             <<"Database already seeded. Python Mastery course exists.">>)]
                   ELSE [pc |-> "insert", response |-> NoSeed.response]]
    /\ UNCHANGED <<fvars, dbvars, rvars, users, user_progress, upd, latest, read>>

\* lines 499-508: the Course, add, flush.  The INSERT waits while another
\* transaction holds the identifier and fails on an identifier that is taken;
\* lines 628-631 roll back and answer 500
SeedCourse(k) ==
    /\ seed[k].pc = "insert"
    /\ \A q \in Reqs : ~HoldsCourse(q, PythonId)
    /\ \A j \in Seeds \ {k} : ~SeedHolds(j, PythonId)
    /\ seed' = [seed EXCEPT ![k] =
                   IF Existing(PythonId)
                   THEN [pc |-> "done",
                         response |-> SeedAnswer(500,
                             <<"Seeding failed: ",
                               "(IntegrityError) UNIQUE constraint failed: course.id">>)]
                   ELSE [pc |-> "rows", response |-> NoSeed.response]]
    /\ UNCHANGED <<fvars, dbvars, rvars, users, user_progress, upd, latest, read>>

\* lines 510-583 and 626: the modules, the lessons, the commit
SeedRows(k) ==
    /\ seed[k].pc = "rows"
    /\ committed' = StoreUnion(committed, PythonCourse(nextModuleId, nextLessonId))
    /\ nextModuleId' = nextModuleId + Len(SeedModules)
    /\ nextLessonId' = nextLessonId + SeedLessonsBefore(Len(SeedLessons) + 1)
    /\ seed' = [seed EXCEPT ![k] =
                   [pc |-> "done",
                    response |-> SeedAnswer(200, <<"Database seeded successfully!">>)]]
    /\ UNCHANGED <<fvars, rvars, users, user_progress, upd, latest, read>>

\* what the text service gives the generation request
SeedEnvs ==
    { PlainText("python mastery"), PlainText("python"), PlainText("empty first"),
      WithKey([kind |-> "raise",
               exc |-> [type |-> "ConnectError",
                        msg |-> <<"[Errno 111] Connection refused">>]]) }

InitSeed ==
    /\ HarnessOff
    /\ StoreInit({EmptyStore, PythonCourse(1, 1)})
    /\ RequestsIdle
    /\ AccountsInit({SomeProgress})
    /\ OthersIdle

NextSeed ==
    \/ \E r \in {1} :
        \/ Receive(r, LeanBodies)
        \/ GenerateSyllabus(r, SeedEnvs)
        \/ DeriveId(r)
        \/ CreateCourse(r)
        \/ CreateModule(r)
        \/ CreateLesson(r)
        \/ Commit(r)
        \/ Respond(r)
        \/ HandleValueError(r)
        \/ HandleException(r)
    \/ \E k \in Seeds :
        \/ SeedCheck(k)
        \/ SeedCourse(k)
        \/ SeedRows(k)

SpecSeed == InitSeed /\ [][NextSeed]_vars

\* C30: once a seed call has been answered, the store holds one Course with the
\* identifier python, it is the seeded one, and it has the three Modules with
\* order_index 1..3 and the seven Lessons.
C30_SeededOnce ==
    (\E k \in Seeds : seed[k].pc = "done") =>
        /\ \E c \in committed.courses : c.id = PythonId
        /\ \A c \in committed.courses :
               c.id = PythonId => c.title = PythonMastery /\ c.is_generated = FALSE
        /\ { m.order_index : m \in ModulesIn(committed, PythonId) } = 1..3
        /\ Cardinality(ModulesIn(committed, PythonId)) = 3
        /\ Cardinality(LessonsIn(committed, PythonId)) = 7

====
